---- MODULE Spec2Model ----
(***************************************************************************)
(* A model of reinkpy: the IEEE 1284.4 link (d4.py), its byte pipe         *)
(* (FileIO in __init__.py) and the Epson EEPROM commands (epson.py).       *)
(*                                                                         *)
(* Bytes are integers 0..255 and byte strings are sequences of them.       *)
(* A Python method is an operator from a world record w (the objects'      *)
(* fields, the pipe, the log of what the call did, its return value and    *)
(* the exception it raised) to the world after the call.                   *)
(***************************************************************************)
EXTENDS Integers, Sequences, FiniteSets, TLC

(***************************************************************************)
(* Bounds of the model.                                                    *)
(***************************************************************************)
\* Chunks the peer has written that an operation may leave unread.
MaxPipe == 2
\* Depth of the caller's nested `with link:` blocks.
MaxHeld == 2
\* Depth of the caller's nested `with channel:` blocks.
MaxChNest == 1
\* Pipe scopes that failed operations may leave behind.
MaxLeak == 1
\* Largest magnitude of a credit counter the model follows.
MaxCredit == 4
\* Bytes of later packets an operation may leave in the reassembly buffer.
MaxReceived == 20
\* The calls of _send_init the interpreter lets one entry nest: its
\* recursion limit (1000 frames in CPython), scaled down.
MaxRecursion == 3

(***************************************************************************)
(* Byte strings.                                                           *)
(***************************************************************************)
Min(a, b) == IF a < b THEN a ELSE b
Max(a, b) == IF a > b THEN a ELSE b

\* b[:n] of Python, n possibly negative.
PyPrefix(b, n) ==
    LET k == IF n < 0 THEN Max(0, Len(b) + n) ELSE Min(n, Len(b))
    IN  SubSeq(b, 1, k)

\* b[n:] of Python, n possibly negative.
PySuffix(b, n) ==
    LET k == IF n < 0 THEN Max(0, Len(b) + n) ELSE Min(n, Len(b))
    IN  SubSeq(b, k + 1, Len(b))

\* struct.pack of one unsigned big-endian field of `width` bytes.
RECURSIVE PackBE(_, _)
PackBE(n, width) ==
    IF width = 0 THEN <<>>
    ELSE PackBE(n \div 256, width - 1) \o <<n % 256>>

\* struct.unpack of one unsigned big-endian field.
RECURSIVE UnpackBE(_)
UnpackBE(b) ==
    IF b = <<>> THEN 0
    ELSE 256 * UnpackBE(SubSeq(b, 1, Len(b) - 1)) + b[Len(b)]

RECURSIVE SumSeq(_)
SumSeq(s) == IF s = <<>> THEN 0 ELSE Head(s) + SumSeq(Tail(s))

\* True when s occurs in b (bytes.__contains__).
Contains(b, s) ==
    \E i \in 0 .. (Len(b) - Len(s)) : SubSeq(b, i + 1, i + Len(s)) = s

(***************************************************************************)
(* D4Link.protocol: the packet codec.                                      *)
(***************************************************************************)
hLen == 6

\* An encoder whose length field counts the payload alone.
PacketEncode_payload_only(payload, psid, ssid, credit, control) ==
    <<psid, ssid>> \o PackBE(Len(payload), 2) \o <<credit, control>>
        \o payload

PacketEncode(payload, psid, ssid, credit, control) ==
    <<psid, ssid>> \o PackBE(hLen + Len(payload), 2) \o <<credit, control>>
        \o payload

\* Defined for Len(b) >= hLen; struct.unpack raises on fewer bytes.
PacketDecode(b) ==
    [header  |-> [psid    |-> b[1],
                  ssid    |-> b[2],
                  length  |-> UnpackBE(SubSeq(b, 3, 4)),
                  credit  |-> b[5],
                  control |-> b[6]],
     payload |-> SubSeq(b, hLen + 1, Len(b))]

payload_length(header) == header.length - hLen
HeaderCid(header) == <<header.psid, header.ssid>>

(***************************************************************************)
(* The transaction protocol: the command tables of the two revisions.      *)
(* A row is the opcode, the struct format as field widths, the field       *)
(* names, the default values of the last fields and whether a trailing     *)
(* ASCII field follows.  NoneVal stands for Python's None in a field.      *)
(***************************************************************************)
NoneVal == 0 - 1

Row(code, fmt, fields, defaults, star) ==
    [code |-> code, fmt |-> fmt, fields |-> fields, defaults |-> defaults,
     star |-> star]

CommonRows ==
    [InitReply           |-> Row(128, <<1, 1>>, <<"result", "revision">>,
                                 <<0>>, FALSE),
     OpenChannelReply    |-> Row(129, <<1, 1, 1, 2, 2, 2, 2>>,
                                 <<"result", "sidP", "sidS", "maxPTS",
                                   "maxSTP", "maxCredit", "grantedCredit">>,
                                 <<NoneVal, NoneVal, NoneVal, NoneVal,
                                   NoneVal>>, FALSE),
     CloseChannelReply   |-> Row(130, <<1, 1, 1>>,
                                 <<"result", "sidP", "sidS">>, <<>>, FALSE),
     Credit              |-> Row(3, <<1, 1, 2>>,
                                 <<"sidP", "sidS", "addCredit">>, <<>>, FALSE),
     CreditReply         |-> Row(131, <<1, 1, 1>>,
                                 <<"result", "sidP", "sidS">>, <<>>, FALSE),
     CreditRequestReply  |-> Row(132, <<1, 1, 1, 2>>,
                                 <<"result", "sidP", "sidS", "addCredit">>,
                                 <<>>, FALSE),
     Exit                |-> Row(8, <<>>, <<>>, <<>>, FALSE),
     ExitReply           |-> Row(136, <<1>>, <<"result">>, <<>>, FALSE),
     GetSocketID         |-> Row(9, <<>>, <<"serviceName">>, <<>>, TRUE),
     GetSocketIDReply    |-> Row(137, <<1, 1>>,
                                 <<"result", "socketID", "serviceName">>,
                                 <<>>, TRUE),
     GetServiceName      |-> Row(10, <<1>>, <<"socketID">>, <<>>, FALSE),
     GetServiceNameReply |-> Row(138, <<1, 1>>,
                                 <<"result", "socketID", "serviceName">>,
                                 <<>>, TRUE),
     Error               |-> Row(127, <<1, 1, 1>>,
                                 <<"errorPSID", "errorSSID", "errorCode">>,
                                 <<>>, FALSE)]

protocol_0x20 ==
    [n \in DOMAIN CommonRows \cup {"Init", "OpenChannel", "CloseChannel",
                                   "CreditRequest"} |->
        CASE n = "Init" -> Row(0, <<1>>, <<"revision">>, <<32>>, FALSE)
          [] n = "OpenChannel" ->
                Row(1, <<1, 1, 2, 2, 2>>,
                    <<"sidP", "sidS", "maxPTS", "maxSTP", "maxCredit">>,
                    <<256, 256, 0>>, FALSE)
          [] n = "CloseChannel" ->
                Row(2, <<1, 1>>, <<"sidP", "sidS">>, <<>>, FALSE)
          [] n = "CreditRequest" ->
                Row(4, <<1, 1, 2>>, <<"sidP", "sidS", "maxCredit">>,
                    <<0>>, FALSE)
          [] OTHER -> IF n = "InitReply"
                      THEN [CommonRows[n] EXCEPT !.defaults = <<32>>]
                      ELSE CommonRows[n]]

protocol_0x10 ==
    [n \in DOMAIN CommonRows \cup {"Init", "OpenChannel", "CloseChannel",
                                   "CreditRequest"} |->
        CASE n = "Init" -> Row(0, <<1>>, <<"revision">>, <<16>>, FALSE)
          [] n = "OpenChannel" ->
                Row(1, <<1, 1, 2, 2, 2, 2>>,
                    <<"sidP", "sidS", "maxPTS", "maxSTP", "maxCredit",
                      "initCredit">>,
                    <<256, 256, 0, 0>>, FALSE)
          [] n = "CloseChannel" ->
                Row(2, <<1, 1, 1>>, <<"sidP", "sidS", "x1">>, <<0>>, FALSE)
          [] n = "CreditRequest" ->
                Row(4, <<1, 1, 2, 2>>, <<"sidP", "sidS", "x1", "x2">>,
                    <<128, 65535>>, FALSE)
          [] OTHER -> IF n = "InitReply"
                      THEN [CommonRows[n] EXCEPT !.defaults = <<16>>]
                      ELSE CommonRows[n]]

\* The table the transaction channel's `protocol` attribute names.
Table(rev) == IF rev = 16 THEN protocol_0x10 ELSE protocol_0x20

\* A decoded command: its name, one value per field of its row, and the
\* trailing ASCII text ("" when the row has none).
NoPacket == [name |-> "None", vals |-> <<>>, text |-> <<>>]
Invalid  == [name |-> "Invalid", vals |-> <<>>, text |-> <<>>]

\* Number of fixed-width fields of a row.
NFixed(row) == Len(row.fmt)

RECURSIVE PackFields(_, _)
\* A pack that gives every field one byte.
PackFields_one_byte(vals, fmt) ==
    IF fmt = <<>> THEN <<>>
    ELSE PackBE(Head(vals), 1) \o PackFields(Tail(vals), Tail(fmt))

\* hStruct.pack(*t): the fixed fields, big-endian.
PackFields(vals, fmt) ==
    IF fmt = <<>> THEN <<>>
    ELSE PackBE(Head(vals), Head(fmt)) \o PackFields(Tail(vals), Tail(fmt))

\* struct.unpack(fmt, b) for Len(b) = SumSeq(fmt).
RECURSIVE UnpackFields(_, _)
UnpackFields(b, fmt) ==
    IF fmt = <<>> THEN <<>>
    ELSE <<UnpackBE(SubSeq(b, 1, Head(fmt)))>>
            \o UnpackFields(SubSeq(b, Head(fmt) + 1, Len(b)), Tail(fmt))

\* hTuple(*a): the arguments followed by the defaults of the fields left.
WithDefaults(row, a) ==
    LET n  == NFixed(row)
        nd == Len(row.defaults)
    IN  [i \in 1 .. n |->
            IF i <= Len(a) THEN a[i] ELSE row.defaults[i - (n - nd)]]

\* hTuple(*a) raises TypeError when a required field is missing.
EnoughArgs(row, a) ==
    /\ Len(a) <= NFixed(row)
    /\ Len(a) >= NFixed(row) - Len(row.defaults)

\* protocol.encode(cmd, *a): opcode, fixed fields, trailing ASCII.
TxEncode(rev, cmd, a, text) ==
    LET row == Table(rev)[cmd]
        t   == WithDefaults(row, a)
    IN  <<row.code>> \o PackFields(t, row.fmt) \o text

\* _make_tx_command.decode: the row's decoder applied to the bytes that
\* follow the opcode.
RowDecode(name, row, b) ==
    LET full == SumSeq(row.fmt)
        \* prefixes of the format the truncated branch tries, longest first
        fits == {k \in 1 .. (NFixed(row) - 1) :
                    SumSeq(SubSeq(row.fmt, 1, k)) <= Len(b)}
    IN  IF Len(b) < full /\ ~row.star /\ fits # {}
        THEN LET k    == CHOOSE k \in fits : \A j \in fits : j <= k
                 pre  == SubSeq(row.fmt, 1, k)
                 vals == UnpackFields(SubSeq(b, 1, SumSeq(pre)), pre)
             IN  IF EnoughArgs(row, vals)
                 THEN [name |-> name, vals |-> WithDefaults(row, vals),
                       text |-> <<>>]
                 ELSE Invalid
        ELSE IF Len(b) < full
        THEN Invalid
        ELSE [name |-> name,
              vals |-> UnpackFields(SubSeq(b, 1, full), row.fmt),
              text |-> IF row.star THEN SubSeq(b, full + 1, Len(b))
                       ELSE <<>>]

\* protocol.decode(b): look the row up by opcode and decode.  Invalid stands
\* for every exception the call raises.
TxDecode(rev, b) ==
    IF b = <<>> THEN Invalid
    ELSE LET names == {n \in DOMAIN Table(rev) : Table(rev)[n].code = b[1]}
         IN  IF names = {} THEN Invalid
             ELSE LET n == CHOOSE n \in names : TRUE
                  IN  RowDecode(n, Table(rev)[n], Tail(b))

\* getattr(p, field); defined when the row of p has the field.
Field(rev, p, f) ==
    LET fields == Table(rev)[p.name].fields
        i      == CHOOSE i \in 1 .. Len(fields) : fields[i] = f
    IN  p.vals[i]

HasField(rev, p, f) ==
    /\ p.name \in DOMAIN Table(rev)
    /\ \E i \in 1 .. Len(Table(rev)[p.name].fields) :
            Table(rev)[p.name].fields[i] = f

\* protocol.ERRORS
ERRORS == 128 .. 135

(***************************************************************************)
(* The peer: the device at the other end of the byte pipe.  It answers     *)
(* what is written to it; each chunk it writes is returned by one read().  *)
(* How it answers is its behaviour, a record:                              *)
(*   rev      the revision it speaks (it refuses any other in InitReply)   *)
(*   hcredit  the credit it piggybacks in the header of each packet        *)
(*   grants   the channels it grants one credit to on a CreditRequest      *)
(*   answers  the requests it answers, among Init, OpenChannel,            *)
(*            CloseChannel, Exit and Data (a packet on a data channel)     *)
(*   cut      0, or the number of bytes after which it splits each packet  *)
(*            into two chunks                                              *)
(*   noise    "", or the packet it sends before every answer: "error" an   *)
(*            Error report, "reply" the reply to a command nobody sent,    *)
(*            "data" a packet on a data channel                            *)
(*   burst    whether the packets of one answer arrive in one chunk        *)
(***************************************************************************)
\* A transaction command in a packet whose header grants cr credits.
TxPacket(rev, cmd, a, cr) ==
    PacketEncode(TxEncode(rev, cmd, a, <<>>), 0, 0, cr, 0)

\* A data packet on channel cid.
DataPacket(cid, data, cr) == PacketEncode(data, cid[1], cid[2], cr, 0)

\* What the device answers on a data channel.
PeerData == <<64, 66>>

\* The init of a peer that refuses every Init with result 0x02 and names
\* the other of the two revisions, 0x10 and 0x20 alternately.
Alternately == <<2, 16, 32>>

\* The packets the peer answers with when it receives, on channel cid, a
\* packet whose payload decodes to command c.
PeerReplies(pr, cid, c, payload) ==
    IF cid # <<0, 0>>
    THEN IF "Data" \in pr.answers
         THEN <<DataPacket(cid, PeerData, pr.hcredit)>>
         ELSE <<>>
    ELSE IF c.name = "CreditRequest"
    THEN IF <<c.vals[1], c.vals[2]>> \in pr.grants
         THEN <<TxPacket(pr.rev, "CreditRequestReply",
                         <<0, c.vals[1], c.vals[2], 1>>, pr.hcredit)>>
         ELSE <<>>
    ELSE IF c.name \notin pr.answers THEN <<>>
    ELSE IF c.name = "Init"
    THEN <<TxPacket(pr.rev, "InitReply",
                    IF pr.init = Alternately
                    THEN <<2, IF payload[2] = 32 THEN 16 ELSE 32>>
                    ELSE IF pr.init # <<>> THEN pr.init
                    ELSE <<IF payload[2] = pr.rev THEN 0 ELSE 2, pr.rev>>,
                    pr.hcredit)>>
    ELSE IF c.name = "OpenChannel"
    THEN <<TxPacket(pr.rev, "OpenChannelReply",
                    <<0, c.vals[1], c.vals[2], 256, 256, 0, 0>>,
                    pr.hcredit)>>
    ELSE IF c.name = "CloseChannel"
    THEN <<TxPacket(pr.rev, "CloseChannelReply",
                    <<0, c.vals[1], c.vals[2]>>, pr.hcredit)>>
    ELSE IF c.name = "Exit"
    THEN <<TxPacket(pr.rev, "ExitReply", <<0>>, pr.hcredit)>>
    ELSE <<>>

\* The packet a noisy peer sends before an answer.
NoisePackets(pr) ==
    CASE pr.noise = "error" -> <<TxPacket(pr.rev, "Error", <<0, 0, 128>>, 0)>>
      [] pr.noise = "reply" ->
            <<TxPacket(pr.rev, "CreditReply", <<0, 0, 0>>, 0)>>
      [] pr.noise = "data" -> <<DataPacket(<<2, 2>>, PeerData, 0)>>
      [] pr.noise = "credit" -> <<DataPacket(<<0, 0>>, <<>>, pr.hcredit)>>
      [] OTHER -> <<>>

\* The packets of an answer, the noise first.
PeerNoisy(pr, ans) == IF ans = <<>> THEN <<>> ELSE NoisePackets(pr) \o ans

\* The packets the peer answers packet b with.
PeerPackets(pr, b) ==
    PeerNoisy(pr, PeerReplies(pr, <<b[1], b[2]>>,
                              TxDecode(pr.rev, SubSeq(b, hLen + 1, Len(b))),
                              SubSeq(b, hLen + 1, Len(b))))

\* The bytes of packets sent back to back.
RECURSIVE Joined(_)
Joined(ps) == IF ps = <<>> THEN <<>> ELSE Head(ps) \o Joined(Tail(ps))

\* Packets as the chunks they arrive in: all in one chunk, or one chunk
\* each, or a single packet split at cut.
Chunks(pr, ps) ==
    IF ps = <<>> THEN <<>>
    ELSE IF pr.burst THEN <<Joined(ps)>>
    ELSE IF Len(ps) > 1 THEN ps
    ELSE IF pr.cut = 0 \/ pr.cut >= Len(ps[1]) THEN <<ps[1]>>
    ELSE <<SubSeq(ps[1], 1, pr.cut), SubSeq(ps[1], pr.cut + 1, Len(ps[1]))>>

\* EpsonD4._init_link: the preamble and the marker of its reply.
ENTER_D4       == <<0, 0, 0, 27, 1, 64, 69, 74, 76, 32, 49, 50, 56, 52, 46,
                    52, 10, 64, 69, 74, 76, 10, 64, 69, 74, 76, 10>>
ENTER_D4_REPLY == <<0, 0, 0, 8, 1, 0, 197, 0>>

\* The chunks the peer writes when it receives b: its answer to the enter
\* preamble, nothing for other bytes that are no packet.
PeerAnswer(pr, b) ==
    IF b = ENTER_D4 THEN pr.enter
    ELSE IF Len(b) < hLen \/ UnpackBE(SubSeq(b, 3, 4)) # Len(b) THEN <<>>
    ELSE Chunks(pr, PeerPackets(pr, b))

(***************************************************************************)
(* The state.                                                              *)
(***************************************************************************)
VARIABLES
    peer,           \* the behaviour of the peer
    pipe,           \* chunks the peer has written, one per future read()
    target_nctx,    \* FileIO._nctx: the byte pipe is open iff it is > 0
    CMD_ENTER_D4,   \* whether the Link has an enter preamble configured
    received,       \* D4Link._received: the reassembly buffer
    nctx,           \* D4Link._nctx: the Link's scope counter
    credit,         \* channel id -> that channel's credit
    ch_nctx,        \* data channel id -> Channel._nctx
    txn_received,   \* TXChannel._received: the last decoded command
    ch_received,    \* data channel id -> Channel._received
    protocol,       \* revision of the table TXChannel.protocol names
    held,           \* `with link:` blocks the caller is inside
    spec,           \* Epson.spec: the model's keys and address widths
    eeprom,         \* the printer's EEPROM: address -> byte
    wire_open,      \* history: channels with OpenChannel written in this
                    \* session and no CloseChannel written since
    last            \* history: the last operation, the state it started
                    \* from, what it did and how it ended

vars == <<peer, pipe, target_nctx, CMD_ENTER_D4, received, nctx, credit, ch_nctx,
          txn_received, ch_received, protocol, held, spec, eeprom, wire_open,
          last>>

TXCid   == <<0, 0>>
CtrlCid == <<2, 2>>
DataCids == {CtrlCid}
\* D4Link.channels after EpsonD4._init_link
Channels == {TXCid} \cup DataCids

\* Channel._received = None
NoData == <<NoneVal>>

(***************************************************************************)
(* The world a method runs in: the program state, plus what the running    *)
(* operation did (log), returned (reply, data, ok) and raised (exc).       *)
(***************************************************************************)
World ==
    [peer |-> peer, pipe |-> pipe, target_nctx |-> target_nctx,
     CMD_ENTER_D4 |-> CMD_ENTER_D4, received |-> received, nctx |-> nctx,
     credit |-> credit, ch_nctx |-> ch_nctx, txn_received |-> txn_received,
     ch_received |-> ch_received, protocol |-> protocol,
     log |-> <<>>, reads |-> 0, reply |-> NoPacket, data |-> NoData,
     ok |-> NoneVal, exc |-> ""]

\* One entry of the log.  t is "w" (bytes written to the pipe), "r" (a
\* non-empty read), "d" (a packet dispatched), "call" (a transaction call
\* starts after n reads of the operation), "wait" (it has sent, after n reads of the operation), "ret" (it
\* returns p after n attempts, <<reads of the operation>> in b), "send"
\* (D4Link.send is called on cid whose credit is n), "asked" (a round of
\* CreditRequest of a send on cid is over, its credit now n), "poll"
\* (D4Link.retreive is called after n reads of the operation, b its
\* buffer) or "hook" (a payload is handed to the on_received of channel cid,
\* whose credit is n and was b[1] when the packet was dispatched).
Ev(t, cmd, b, p, cid, n) ==
    [t |-> t, cmd |-> cmd, b |-> b, p |-> p, cid |-> cid, n |-> n]

Emit(w, e) == [w EXCEPT !.log = Append(@, e)]
Raise(w, e) == [w EXCEPT !.exc = e]

(***************************************************************************)
(* FileIO: the byte pipe.                                                  *)
(***************************************************************************)
target_enter(w) == [w EXCEPT !.target_nctx = @ + 1]

target_exit(w) == [w EXCEPT !.target_nctx = @ - 1]

\* FileIO.write: the file object must be open.  The peer answers at once.
target_write(w, b) ==
    IF w.target_nctx = 0 THEN Raise(w, "ValueError")
    ELSE [Emit(w, Ev("w", "", b, NoPacket, TXCid, 0))
            EXCEPT !.ok = Len(b), !.pipe = @ \o PeerAnswer(w.peer, b)]

\* FileIO.read: one transfer; empty when the peer has sent nothing.
target_read(w) ==
    IF w.target_nctx = 0 THEN Raise(w, "ValueError")
    ELSE IF w.pipe = <<>>
    THEN [w EXCEPT !.data = <<>>, !.reads = @ + 1]
    ELSE [Emit(w, Ev("r", "", Head(w.pipe), NoPacket, TXCid, 0))
            EXCEPT !.data = Head(w.pipe), !.pipe = Tail(w.pipe),
                   !.reads = @ + 1]

(***************************************************************************)
(* Receiving: D4Link.retreive, D4Link._on_received and the channels'       *)
(* on_received hooks.                                                      *)
(***************************************************************************)
\* Channel.on_received
Channel_on_received(w, cid, data) ==
    [w EXCEPT !.ch_received[cid] = data]

\* TXChannel.on_received: if hasattr(p, 'addCredit').
TXChannel_credit(w, p) ==
    IF ~HasField(w.protocol, p, "addCredit") THEN w
    ELSE IF <<Field(w.protocol, p, "sidP"), Field(w.protocol, p, "sidS")>>
               \notin Channels
    THEN Raise(w, "KeyError")
    ELSE [w EXCEPT !.credit[<<Field(w.protocol, p, "sidP"),
                              Field(w.protocol, p, "sidS")>>] =
                      @ + Field(w.protocol, p, "addCredit")]

\* TXChannel.on_received: if p.name == 'Error'.
TXChannel_error(w, p) ==
    IF w.exc # "" THEN w
    ELSE IF p.name = "Error"
            /\ Field(w.protocol, p, "errorCode") \notin ERRORS
    THEN Raise(w, "KeyError")
    ELSE w

\* TXChannel.on_received, the else branch of its try: p is the decoded
\* command, already stored in _received.
TXChannel_decoded(w, p) == TXChannel_error(TXChannel_credit(w, p), p)

\* TXChannel.on_received, after self.protocol.decode(data) gave p.
TXChannel_try(w, p) ==
    IF p = Invalid THEN w
    ELSE TXChannel_decoded([w EXCEPT !.txn_received = p], p)

\* TXChannel.on_received
TXChannel_on_received(w, data) ==
    TXChannel_try(w, TxDecode(w.protocol, data))

\* D4Link._on_received: if payload: return c.on_received(payload, header).
\* before is the channel's credit when the packet was dispatched.
Deliver(w, cid, payload, before) ==
    IF payload = <<>> THEN w
    ELSE IF cid = TXCid
    THEN TXChannel_on_received(
            Emit(w, Ev("hook", "", <<before>>, NoPacket, cid, w.credit[cid])),
            payload)
    ELSE Channel_on_received(
            Emit(w, Ev("hook", "", <<before>>, NoPacket, cid, w.credit[cid])),
            cid, payload)

\* The credit of a packet added after its payload was delivered.
CreditAfter(w, cid, n) ==
    IF w.exc # "" THEN w ELSE [w EXCEPT !.credit[cid] = @ + n]

\* A dispatch that delivers the payload first and adds the credit after.
on_received_hook_first(w, header, payload) ==
    IF HeaderCid(header) \notin Channels
    THEN Emit(w, Ev("d", "", payload, NoPacket, HeaderCid(header),
                    header.credit))
    ELSE CreditAfter(
            Deliver(Emit(w, Ev("d", "", payload, NoPacket, HeaderCid(header),
                               header.credit)),
                    HeaderCid(header), payload,
                    w.credit[HeaderCid(header)]),
            HeaderCid(header), header.credit)

\* A dispatch that hands the packet of an id that is not in the table to
\* the control channel.
on_received_any_id(w, header, payload) ==
    IF HeaderCid(header) \notin Channels
    THEN Deliver([Emit(w, Ev("d", "", payload, NoPacket, HeaderCid(header),
                             header.credit))
                    EXCEPT !.credit[CtrlCid] = @ + header.credit],
                 CtrlCid, payload, w.credit[CtrlCid])
    ELSE Deliver([Emit(w, Ev("d", "", payload, NoPacket, HeaderCid(header),
                             header.credit))
                    EXCEPT !.credit[HeaderCid(header)] = @ + header.credit],
                 HeaderCid(header), payload, w.credit[HeaderCid(header)])

\* D4Link._on_received: dispatch one packet to its channel.
on_received(w, header, payload) ==
    IF HeaderCid(header) \notin Channels
    THEN Emit(w, Ev("d", "", payload, NoPacket, HeaderCid(header),
                    header.credit))
    ELSE Deliver([Emit(w, Ev("d", "", payload, NoPacket, HeaderCid(header),
                             header.credit))
                    EXCEPT !.credit[HeaderCid(header)] = @ + header.credit],
                 HeaderCid(header), payload, w.credit[HeaderCid(header)])

\* D4Link.retreive's default number of further reads.
Retries == 6

RECURSIVE RetreiveLoop(_, _, _)

\* A retreive that leaves the packet it dispatches in the buffer.
RetreiveDecoded_keep_all(w, all, d, i) ==
    IF Len(d.payload) < payload_length(d.header)
    THEN RetreiveLoop(w, all, i + 1)
    ELSE on_received(
            [w EXCEPT !.received = all],
            d.header, PyPrefix(d.payload, payload_length(d.header)))

\* A retreive that forgets the bytes after the packet it dispatches.
RetreiveDecoded_drop_rest(w, all, d, i) ==
    IF Len(d.payload) < payload_length(d.header)
    THEN RetreiveLoop(w, all, i + 1)
    ELSE on_received(
            [w EXCEPT !.received = <<>>],
            d.header, PyPrefix(d.payload, payload_length(d.header)))

\* The body of the loop of D4Link.retreive after rest += resp: all is the
\* new rest, d its decoding.
RetreiveDecoded(w, all, d, i) ==
    IF Len(d.payload) < payload_length(d.header)
    THEN RetreiveLoop(w, all, i + 1)
    ELSE on_received(
            [w EXCEPT !.received =
                         PySuffix(d.payload, payload_length(d.header))],
            d.header, PyPrefix(d.payload, payload_length(d.header)))

\* The body of the loop of D4Link.retreive after resp = self.target.read().
RetreiveRead(w, rest, i) ==
    IF w.exc # "" THEN w
    ELSE IF w.data = <<>> THEN RetreiveLoop(w, rest, i + 1)
    ELSE IF Len(rest \o w.data) < hLen THEN Raise(w, "struct.error")
    ELSE RetreiveDecoded(w, rest \o w.data, PacketDecode(rest \o w.data), i)

\* The loop of D4Link.retreive; rest is its local buffer.
RetreiveLoop(w, rest, i) ==
    IF i >= 1 + Retries THEN w
    ELSE IF w.pipe = <<>> /\ w.target_nctx > 0
    THEN \* every read left returns b'' and the loop runs out
         [w EXCEPT !.data = <<>>, !.reads = @ + (1 + Retries - i)]
    ELSE RetreiveRead(target_read(w), rest, i)

\* D4Link.retreive
retreive(w) ==
    RetreiveLoop(Emit(w, Ev("poll", "", w.received, NoPacket, TXCid,
                            w.reads)),
                 w.received, 0)

(***************************************************************************)
(* Sending: D4Link.send, TXChannel.send and TXChannel.__call__.            *)
(***************************************************************************)
\* Rounds of CreditRequest a checked send makes: range(3).
CreditRounds == 3
\* Attempts of TXChannel.__call__ to retreive its reply: range(8).
TxAttempts == 8

\* The tail of send that forgets to spend the credit.
Dispatch_no_spend(w, payload, cid, cr, control, cost) ==
    target_write(w, PacketEncode(payload, cid[1], cid[2], cr, control))

\* The tail of D4Link.send: spend the credit, encode, write.
Dispatch(w, payload, cid, cr, control, cost) ==
    target_write([w EXCEPT !.credit[cid] = @ - cost],
                 PacketEncode(payload, cid[1], cid[2], cr, control))

\* bool(p) of a decoded command: a namedtuple without fields is false.
Truthy(rev, p) ==
    /\ p # NoPacket
    /\ Table(rev)[p.name].fields # <<>>

RECURSIVE SendLoop(_, _, _, _, _, _, _)
RECURSIVE TxWait(_, _, _)

\* TXChannel.send after payload = self.protocol.encode(cmd, *a): Init
\* costs no credit, CreditRequest and Credit skip the check.
TXChannel_encoded(w, cmd, payload) ==
    IF cmd \notin {"CreditRequest", "Credit"}
    THEN SendLoop(Emit(w, Ev("send", cmd, payload, NoPacket, TXCid,
                             w.credit[TXCid])),
                  payload, TXCid, 1, 0, IF cmd = "Init" THEN 0 ELSE 1, 0)
    ELSE Dispatch(Emit(w, Ev("send", cmd, payload, NoPacket, TXCid,
                             w.credit[TXCid])),
                  payload, TXCid, 1, 0, 1)

\* TXChannel.send: encode the command and send it on the transaction
\* channel.
TXChannel_send(w, cmd, a) ==
    TXChannel_encoded(w, cmd, TxEncode(w.protocol, cmd, a, <<>>))

\* TXChannel.__call__ after ok = self.send(cmd, *a).
TXChannel_sent(w, cmd) ==
    IF w.exc # "" THEN w
    ELSE TxWait([Emit(w, Ev("wait", cmd, <<>>, NoPacket, TXCid, w.reads))
                   EXCEPT !.txn_received = NoPacket],
                cmd, 0)

\* TXChannel.__call__: send, then wait for the reply named cmd + "Reply".
TXChannel_call(w, cmd, a) ==
    TXChannel_sent(
        TXChannel_send(Emit(w, Ev("call", cmd, a, NoPacket, TXCid, w.reads)),
                       cmd, a),
        cmd)

\* A wait that returns whatever packet it has received.
TxRetreived_any_packet(w, cmd, r) ==
    IF w.exc # "" THEN w
    ELSE IF Truthy(w.protocol, w.txn_received)
    THEN [Emit(w, Ev("ret", cmd, <<w.reads>>, w.txn_received, TXCid, r + 1))
            EXCEPT !.reply = w.txn_received]
    ELSE TxWait(w, cmd, r + 1)

\* The body of the loop of TXChannel.__call__ after self.link.retreive().
TxRetreived(w, cmd, r) ==
    IF w.exc # "" THEN w
    ELSE IF Truthy(w.protocol, w.txn_received)
            /\ w.txn_received.name = cmd \o "Reply"
    THEN [Emit(w, Ev("ret", cmd, <<w.reads>>, w.txn_received, TXCid, r + 1))
            EXCEPT !.reply = w.txn_received]
    ELSE TxWait(w, cmd, r + 1)

\* A wait that makes one attempt more.
TxWait_one_more(w, cmd, r) ==
    IF r >= TxAttempts + 1
    THEN [Emit(w, Ev("ret", cmd, <<w.reads>>, NoPacket, TXCid, r))
            EXCEPT !.reply = NoPacket]
    ELSE TxRetreived(retreive(w), cmd, r)

\* The loop of TXChannel.__call__.
TxWait(w, cmd, r) ==
    IF r >= TxAttempts
    THEN [Emit(w, Ev("ret", cmd, <<w.reads>>, NoPacket, TXCid, r))
            EXCEPT !.reply = NoPacket]
    ELSE TxRetreived(retreive(w), cmd, r)

\* The loop of D4Link.send after self.txn('CreditRequest', *channel.cid).
SendAsked(w, payload, cid, cr, control, cost, retry) ==
    IF w.exc # "" THEN w
    ELSE SendLoop(Emit(w, Ev("asked", "", payload, NoPacket, cid,
                             w.credit[cid])),
                  payload, cid, cr, control, cost, retry + 1)

\* A send that has written its packet and asks for credit afterwards.
SendWritten(w, cid) ==
    IF w.exc # "" THEN w ELSE TXChannel_call(w, "CreditRequest", cid)

\* A checked send that writes the packet first and asks for credit after.
SendLoop_write_first(w, payload, cid, cr, control, cost, retry) ==
    IF w.credit[cid] >= cost
    THEN Dispatch(w, payload, cid, cr, control, cost)
    ELSE SendWritten(Dispatch(w, payload, cid, cr, control, cost), cid)

\* A checked send that spends the credit even when it gives up.
SendLoop_spend_anyway(w, payload, cid, cr, control, cost, retry) ==
    IF retry >= CreditRounds
    THEN [w EXCEPT !.ok = NoneVal, !.credit[cid] = @ - cost]
    ELSE IF w.credit[cid] >= cost
    THEN Dispatch(w, payload, cid, cr, control, cost)
    ELSE SendAsked(TXChannel_call(w, "CreditRequest", cid),
                   payload, cid, cr, control, cost, retry)

\* The checked part of D4Link.send: for retry in range(3) ... else: return.
SendLoop(w, payload, cid, cr, control, cost, retry) ==
    IF retry >= CreditRounds THEN [w EXCEPT !.ok = NoneVal]
    ELSE IF w.credit[cid] >= cost
    THEN Dispatch(w, payload, cid, cr, control, cost)
    ELSE SendAsked(TXChannel_call(w, "CreditRequest", cid),
                   payload, cid, cr, control, cost, retry)

\* Channel.send: D4Link.send(data, channel) with the defaults credit=1,
\* control=0, cost=1, check=True.
Channel_send(w, cid, data) ==
    SendLoop(Emit(w, Ev("send", "", data, NoPacket, cid, w.credit[cid])),
             data, cid, 1, 0, 1, 0)

RECURSIVE ChannelWait(_, _, _)

\* The body of the loop of Channel.retreive after self.link.retreive().
ChannelRetreived(w, cid, r) ==
    IF w.exc # "" THEN w
    ELSE IF w.ch_received[cid] # NoData
    THEN [w EXCEPT !.data = w.ch_received[cid]]
    ELSE ChannelWait(w, cid, r + 1)

\* The loop of Channel.retreive.
ChannelWait(w, cid, r) ==
    IF r >= 1 + Retries THEN [w EXCEPT !.data = NoData]
    ELSE ChannelRetreived(retreive(w), cid, r)

\* Channel.retreive
Channel_retreive(w, cid) ==
    ChannelWait([w EXCEPT !.ch_received[cid] = NoData], cid, 0)

\* Channel.__call__ after ok = self.send(data).
Channel_sent(w, cid) ==
    IF w.exc # "" THEN w ELSE Channel_retreive(w, cid)

\* Channel.__call__
Channel_call(w, cid, data) == Channel_sent(Channel_send(w, cid, data), cid)

(***************************************************************************)
(* The Link's scope: D4Link.__enter__, _send_init and __exit__.            *)
(***************************************************************************)
\* Reads of the pipe looking for the marker: range(5).
EnterReads == 5

RECURSIVE EnterPoll(_, _, _)

\* The body of the polling loop after r += self.target.read().
EnterPolled(w, r, i) ==
    IF w.exc # "" THEN w
    ELSE IF Contains(r \o w.data, ENTER_D4_REPLY) THEN w
    ELSE EnterPoll(w, r \o w.data, i + 1)

\* The polling loop of __enter__; r is what it has read so far.
EnterPoll(w, r, i) ==
    IF i >= EnterReads THEN w
    ELSE EnterPolled(target_read(w), r, i)

RECURSIVE send_init(_, _)

\* A reply handling that switches the table and gives up instead of
\* sending Init again.
InitReplied_no_reinit(w, revision) ==
    IF w.exc # "" THEN w
    ELSE IF w.reply = NoPacket THEN Raise(w, "TypeError")
    ELSE IF w.reply.vals[1] = 0 THEN [w EXCEPT !.ok = 1]
    ELSE IF w.reply.vals[1] \in {1, 11} THEN Raise(w, "TypeError")
    ELSE IF /\ w.reply.vals[1] = 2
            /\ w.reply.vals[2] # revision
            /\ w.reply.vals[2] \in {16, 32}
    THEN [w EXCEPT !.protocol = w.reply.vals[2], !.ok = NoneVal]
    ELSE [w EXCEPT !.ok = NoneVal]

\* A reply handling that takes "retry later" for success.
InitReplied_busy_ok(w, revision) ==
    IF w.exc # "" THEN w
    ELSE IF w.reply = NoPacket THEN Raise(w, "TypeError")
    ELSE IF w.reply.vals[1] \in {0, 1, 11} THEN [w EXCEPT !.ok = 1]
    ELSE IF /\ w.reply.vals[1] = 2
            /\ w.reply.vals[2] # revision
            /\ w.reply.vals[2] \in {16, 32}
    THEN send_init([w EXCEPT !.protocol = w.reply.vals[2]],
                   w.reply.vals[2])
    ELSE [w EXCEPT !.ok = NoneVal]

\* D4Link._send_init after res, rev = self.txn('Init', revision); ok = 1
\* stands for the return value True.
InitReplied(w, revision) ==
    IF w.exc # "" THEN w
    ELSE IF w.reply = NoPacket THEN Raise(w, "TypeError")
    ELSE IF w.reply.vals[1] = 0 THEN [w EXCEPT !.ok = 1]
    ELSE IF w.reply.vals[1] \in {1, 11} THEN Raise(w, "TypeError")
    ELSE IF /\ w.reply.vals[1] = 2
            /\ w.reply.vals[2] # revision
            /\ w.reply.vals[2] \in {16, 32}
    THEN send_init([w EXCEPT !.protocol = w.reply.vals[2]],
                   w.reply.vals[2])
    ELSE [w EXCEPT !.ok = NoneVal]

\* The calls of _send_init the operation has made so far.
InitCalls(w) ==
    Len(SelectSeq(w.log, LAMBDA e : e.t = "call" /\ e.cmd = "Init"))

\* D4Link._send_init; the interpreter ends a recursion deeper than its
\* limit with RecursionError.
send_init(w, revision) ==
    IF InitCalls(w) >= MaxRecursion THEN Raise(w, "RecursionError")
    ELSE InitReplied(TXChannel_call(w, "Init", <<revision>>), revision)

\* D4Link.__enter__: the preamble, after self.target.write(CMD_ENTER_D4).
EnterWritten(w) ==
    IF w.exc # "" THEN w ELSE EnterPoll(w, <<>>, 0)

\* D4Link.__enter__: the preamble, when one is configured.
EnterPreamble(w) ==
    IF w.CMD_ENTER_D4 THEN EnterWritten(target_write(w, ENTER_D4)) ELSE w

\* D4Link.__enter__: if not self._send_init().
EnterInit(w) ==
    IF w.exc # "" THEN w ELSE send_init(w, 32)

\* D4Link.__enter__: the end, after _send_init.
EnterDone(w) ==
    IF w.exc # "" THEN w
    ELSE IF w.ok # 1 THEN Raise(w, "Init failed")
    ELSE [w EXCEPT !.nctx = @ + 1]

\* D4Link.__enter__
D4Link_enter(w) ==
    IF w.nctx = 0
    THEN EnterDone(EnterInit(EnterPreamble(target_enter(w))))
    ELSE [w EXCEPT !.nctx = @ + 1]

\* D4Link.__exit__ after self.txn('Exit').
ExitReplied(w) ==
    IF w.exc # "" THEN w
    ELSE target_exit(IF Truthy(w.protocol, w.reply)
                     THEN [w EXCEPT !.credit[TXCid] = 0]
                     ELSE w)

\* The end of an __exit__ that has sent Exit whatever the scope counter is.
ExitReplied_every_time(w) ==
    IF w.exc # "" \/ w.nctx # 0 THEN w
    ELSE target_exit(IF Truthy(w.protocol, w.reply)
                     THEN [w EXCEPT !.credit[TXCid] = 0]
                     ELSE w)

\* __exit__ that sends Exit whatever the scope counter is.
D4Link_exit_every_time(w) ==
    ExitReplied_every_time(
        TXChannel_call([w EXCEPT !.nctx = @ - 1], "Exit", <<>>))

\* D4Link.__exit__
D4Link_exit(w) ==
    IF w.nctx - 1 = 0
    THEN ExitReplied(TXChannel_call([w EXCEPT !.nctx = @ - 1], "Exit", <<>>))
    ELSE [w EXCEPT !.nctx = @ - 1]

(***************************************************************************)
(* A data channel's scope: Channel.__enter__ and Channel.__exit__.         *)
(***************************************************************************)
\* Channel.__enter__ after txn('OpenChannel', *self.cid), whose result
\* is not looked at.
ChannelOpened(w, cid) ==
    IF w.exc # "" THEN w ELSE [w EXCEPT !.ch_nctx[cid] = @ + 1]

\* Channel.__enter__ after self.link.__enter__().
ChannelLinked(w, cid) ==
    IF w.exc # "" THEN w ELSE TXChannel_call(w, "OpenChannel", cid)

\* Channel.__enter__
Channel_enter(w, cid) ==
    IF w.ch_nctx[cid] = 0
    THEN ChannelOpened(ChannelLinked(D4Link_enter(w), cid), cid)
    ELSE [w EXCEPT !.ch_nctx[cid] = @ + 1]

\* Channel.__exit__ after self.link.txn('CloseChannel', *self.cid).
ChannelClosed(w) ==
    IF w.exc # "" THEN w ELSE D4Link_exit(w)

\* Channel.__exit__
Channel_exit(w, cid) ==
    IF w.ch_nctx[cid] - 1 = 0
    THEN ChannelClosed(TXChannel_call([w EXCEPT !.ch_nctx[cid] = @ - 1],
                                      "CloseChannel", cid))
    ELSE [w EXCEPT !.ch_nctx[cid] = @ - 1]

(***************************************************************************)
(* The operations as actions.  The caller uses the Link and the channel    *)
(* through `with` blocks, as Epson._ictrl and Epson.find_rkey do: a block  *)
(* whose __enter__ raises is not entered, and a block is left even when    *)
(* its __exit__ raises.                                                    *)
(***************************************************************************)
\* The opcode of a transaction command written in packet b, or NoneVal.
WrittenTx(b) ==
    IF Len(b) > hLen /\ <<b[1], b[2]>> = TXCid THEN b[hLen + 1] ELSE NoneVal

\* The channel an Open/CloseChannel command in packet b names.
WrittenSid(b) == <<b[hLen + 2], b[hLen + 3]>>

\* The channels open on the wire after the writes of a log.
RECURSIVE WireOpenAfter(_, _)
WireOpenAfter(open, log) ==
    IF log = <<>> THEN open
    ELSE LET e == Head(log)
             o == IF e.t # "w" THEN open
                  ELSE IF WrittenTx(e.b) = protocol_0x20["OpenChannel"].code
                  THEN open \cup {WrittenSid(e.b)}
                  ELSE IF WrittenTx(e.b) = protocol_0x20["CloseChannel"].code
                  THEN open \ {WrittenSid(e.b)}
                  ELSE open
         IN  WireOpenAfter(o, Tail(log))

\* The program state an operation started from.
Pre ==
    [peer |-> peer, pipe |-> pipe, target_nctx |-> target_nctx, received |-> received,
     nctx |-> nctx, credit |-> credit, ch_nctx |-> ch_nctx,
     protocol |-> protocol, wire_open |-> wire_open]

\* The counters stay within the bounds of the model.
Bounded(w) ==
    /\ Len(w.pipe) <= MaxPipe
    /\ Len(w.received) <= MaxReceived
    /\ w.target_nctx <= MaxLeak + 1
    /\ \A c \in DataCids : w.ch_nctx[c] <= MaxChNest
    /\ \A c \in Channels : w.credit[c] \in (0 - MaxCredit) .. MaxCredit

\* The state after operation op(cid, arg) took the world to w.
Commit(w, op, cid, arg) ==
    /\ Bounded(w)
    /\ pipe' = w.pipe
    /\ target_nctx' = w.target_nctx
    /\ received' = w.received
    /\ nctx' = w.nctx
    /\ credit' = w.credit
    /\ ch_nctx' = w.ch_nctx
    /\ txn_received' = w.txn_received
    /\ ch_received' = w.ch_received
    /\ protocol' = w.protocol
    /\ wire_open' = IF w.nctx = 0 THEN {}
                    ELSE WireOpenAfter(wire_open,
                                       SelectSeq(w.log,
                                                 LAMBDA e : e.t = "w"))
    /\ last' = [op |-> op, cid |-> cid, arg |-> arg, pre |-> Pre,
                log |-> w.log, reads |-> w.reads, reply |-> w.reply,
                data |-> w.data, ok |-> w.ok, exc |-> w.exc]
    /\ UNCHANGED <<peer, CMD_ENTER_D4, spec, eeprom>>

\* with link: ...
LinkEnter ==
    /\ held < MaxHeld
    /\ Commit(D4Link_enter(World), "LinkEnter", TXCid, <<>>)
    /\ held' = IF last'.exc = "" THEN held + 1 ELSE held

LinkExit ==
    /\ held > 0
    /\ Commit(D4Link_exit(World), "LinkExit", TXCid, <<>>)
    /\ held' = held - 1

\* with channel: ...
ChannelEnter(cid) ==
    /\ Commit(Channel_enter(World, cid), "ChannelEnter", cid, <<>>)
    /\ UNCHANGED held

ChannelExit(cid) ==
    /\ ch_nctx[cid] > 0
    /\ Commit(Channel_exit(World, cid), "ChannelExit", cid, <<>>)
    /\ UNCHANGED held

\* channel.send(data), inside the channel's scope
ChannelSend(cid, data) ==
    /\ ch_nctx[cid] > 0
    /\ Commit(Channel_send(World, cid, data), "ChannelSend", cid, data)
    /\ UNCHANGED held

\* channel.retreive(), inside the channel's scope
ChannelRetreive(cid) ==
    /\ ch_nctx[cid] > 0
    /\ Commit(Channel_retreive(World, cid), "ChannelRetreive", cid, <<>>)
    /\ UNCHANGED held

\* channel(data), inside the channel's scope
ChannelCall(cid, data) ==
    /\ ch_nctx[cid] > 0
    /\ Commit(Channel_call(World, cid, data), "ChannelCall", cid, data)
    /\ UNCHANGED held

\* link.txn(cmd, *a), inside the Link's scope
TxCall(cmd, a) ==
    /\ nctx > 0
    /\ Commit(TXChannel_call(World, cmd, a), "TxCall", TXCid,
              [cmd |-> cmd, a |-> a])
    /\ UNCHANGED held

\* link.retreive(), inside the Link's scope
LinkRetreive ==
    /\ nctx > 0
    /\ Commit(retreive(World), "LinkRetreive", TXCid, <<>>)
    /\ UNCHANGED held

\* The peer changes its behaviour.
PeerBehaves(pr) ==
    /\ peer # pr
    /\ peer' = pr
    /\ UNCHANGED <<pipe, target_nctx, CMD_ENTER_D4, received, nctx, credit,
                   ch_nctx, txn_received, ch_received, protocol, held,
                   spec, eeprom, wire_open, last>>

\* The payloads the caller sends.
Payloads == {<<115, 116>>}

\* A peer that speaks revision 0x20 and answers everything in one chunk.
\* init is the result and revision of its InitReply when it does not
\* settle the revision: retry later (0x01, 0x0B) or a revision of its own.
GoodPeer ==
    [rev |-> 32, hcredit |-> 1, grants |-> Channels,
     answers |-> {"Init", "OpenChannel", "CloseChannel", "Exit", "Data"},
     cut |-> 0, noise |-> "", burst |-> FALSE, init |-> <<>>,
     enter |-> <<>>]

\* A peer that answers Init and nothing else.
MutePeer == [GoodPeer EXCEPT !.grants = {}, !.answers = {"Init"}]

\* The peers of the caller that works through the channel scope.
ChannelPeers ==
    {[GoodPeer EXCEPT !.hcredit = h, !.grants = g] :
        h \in {0, 1}, g \in {{}, {CtrlCid}, Channels}}
    \cup {MutePeer}

(***************************************************************************)
(* Epson: the EEPROM commands of epson.py.  The control channel is seen    *)
(* as a call c(m) that returns the printer's reply or None, which is what  *)
(* both Channel.__call__ and EpsonSNMP._ctrl_send offer.  A method is an   *)
(* operator on a record e: the spec, the printer's EEPROM, the behaviour   *)
(* the printer shows during the call, the log, the return value and the    *)
(* exception.                                                              *)
(***************************************************************************)
\* Most pairs one write_eeprom call, or addresses one read_eeprom call, gets.
MaxPairs == 2

RECURSIVE Reverse(_)
Reverse(s) == IF s = <<>> THEN <<>> ELSE Reverse(Tail(s)) \o <<Head(s)>>

\* Whether struct.pack takes x for an unsigned field of `width` bytes;
\* it raises struct.error otherwise, as it does for None.
Packs(x, width) == x \in 0 .. ((IF width = 1 THEN 256 ELSE 65536) - 1)

\* struct.pack('<B', x) or ('<H', x)
PackLE(x, width) == Reverse(PackBE(x, width))

UnpackLE(b) == UnpackBE(Reverse(b))

\* The address width struct uses: 'B' when the length is 1, 'H' otherwise.
Width(len) == IF len = 1 THEN 1 ELSE 2

\* An encode whose third check byte is shifted and not rotated.
encode_shifted(sp, cmd, payload) ==
    LET c == cmd[2]
        p == PackLE(sp.rkey, 2) \o <<c, 255 - c, (c \div 2) % 128>> \o payload
    IN  <<cmd[1], cmd[1]>> \o PackLE(Len(p), 2) \o p

\* Epson.encode of a factory command cmd = (cmd[1], chr(cmd[2])).
encode(sp, cmd, payload) ==
    LET c == cmd[2]
        p == PackLE(sp.rkey, 2)
                \o <<c, 255 - c, ((c \div 2) % 128) + ((c % 2) * 128)>>
                \o payload
    IN  <<cmd[1], cmd[1]>> \o PackLE(Len(p), 2) \o p

\* CMD of read_eeprom, ('|', 'A'), and of write_eeprom, ('|', 'B').
CMD_READ  == <<124, 65>>
CMD_WRITE == <<124, 66>>

\* The value of a hexadecimal digit, NoneVal for another character.
HexDigit(ch) ==
    IF ch \in 48 .. 57 THEN ch - 48
    ELSE IF ch \in 65 .. 70 THEN ch - 55
    ELSE IF ch \in 97 .. 102 THEN ch - 87
    ELSE NoneVal

\* What \s matches in an ASCII string.
Whitespace == (9 .. 13) \cup (28 .. 32)

\* re.match(r'.*?\sEE:([0-9a-fA-F]{6,6});', s): the places i of the \s at
\* which the pattern matches.
MatchesAt(s) ==
    {i \in 1 .. (Len(s) - 10) :
        /\ \A k \in 1 .. (i - 1) : s[k] # 10
        /\ s[i] \in Whitespace
        /\ SubSeq(s, i + 1, i + 3) = <<69, 69, 58>>
        /\ \A k \in (i + 4) .. (i + 9) : HexDigit(s[k]) # NoneVal
        /\ s[i + 10] = 59}

\* bytes.fromhex of the six digits of group 1.
FromHex(s, i) ==
    [k \in 1 .. 3 |->
        16 * HexDigit(s[i + 2 + 2 * k]) + HexDigit(s[i + 3 + 2 * k])]

\* A parse that takes the value whatever address the reply echoes.
parse_reply_any_address(sp, a, r) ==
    IF r = NoData THEN NoneVal
    ELSE IF \E k \in DOMAIN r : r[k] > 127 THEN NoneVal
    ELSE LET M == MatchesAt(r)
             i == CHOOSE x \in M : \A y \in M : x <= y
             b == FromHex(r, i)
         IN  IF M = {} THEN NoneVal
             ELSE IF Width(sp.rlen) = 1 THEN NoneVal
             ELSE b[3]

\* The body of the try of read_eeprom: the value the reply r carries for
\* address a, NoneVal when anything in it raises.
parse_reply(sp, a, r) ==
    IF r = NoData THEN NoneVal
    ELSE IF \E k \in DOMAIN r : r[k] > 127 THEN NoneVal
    ELSE LET M == MatchesAt(r)
             i == CHOOSE x \in M : \A y \in M : x <= y
             b == FromHex(r, i)
         IN  IF M = {} THEN NoneVal
             ELSE IF Width(sp.rlen) = 1 THEN NoneVal
             ELSE IF UnpackBE(SubSeq(b, 1, 2)) # a THEN NoneVal
             ELSE b[3]

\* The two hexadecimal digits of a byte, as the printer prints them.
Hex2(b) ==
    LET d(x) == IF x < 10 THEN 48 + x ELSE 55 + x
    IN  <<d(b \div 16), d(b % 16)>>

\* '@BDC PS EE:<hex>;'
EEReply(hex) == <<64, 66, 68, 67, 32, 80, 83, 32, 69, 69, 58>> \o hex \o <<59>>

\* '@BDC PS\r\nEE:<hex>;\r\n', the reply of a printer that ends its lines.
EELines(hex) ==
    <<64, 66, 68, 67, 32, 80, 83, 13, 10, 69, 69, 58>> \o hex \o <<59, 13, 10>>

\* '||:42:OK;' and '||:42:NA;'
OKReply == <<124, 124, 58, 52, 50, 58, 79, 75, 59>>
NAReply == <<124, 124, 58, 52, 50, 58, 78, 65, 59>>

\* The printer's write key.
PrinterKey == <<65, 114, 97, 110, 116, 105, 102, 111>>

\* What the printer does with command m while it behaves as bh: its reply
\* and its EEPROM afterwards.
\*   bh.reads:  "ok" the address in two bytes and the value, "byte" the
\*              address in one byte and the value, "lines" as "ok" on a line
\*              of its own, "other" another address echoed, "garbled" the
\*              value's digits not hexadecimal, "hole" as "garbled" for
\*              the highest address and as "ok" for the others, "silent"
\*              no reply to anything
\*   bh.acks:   whether a write is answered with :OK;
\*   bh.stores: "yes" the value is stored, "no" nothing is, "ones" 0xFF is
PrinterAnswer(bh, sp, mem, m) ==
    LET op      == IF Len(m) >= 9 THEN m[7] ELSE NoneVal
        payload == SubSeq(m, 10, Len(m))
        rw      == Width(sp.rlen)
        ww      == Width(sp.wlen)
        ra      == UnpackLE(SubSeq(payload, 1, rw))
        wa      == UnpackLE(SubSeq(payload, 1, ww))
    IN  IF op = CMD_READ[2] /\ Len(payload) = rw /\ ra \in DOMAIN mem
        THEN [mem   |-> mem,
              reply |-> CASE \/ bh.reads = "ok"
                             \/ bh.reads = "hole" /\ ra # sp.mem_high ->
                               EEReply(Hex2(ra \div 256) \o Hex2(ra % 256)
                                          \o Hex2(mem[ra]))
                          [] bh.reads = "byte" ->
                               EEReply(Hex2(ra % 256) \o Hex2(mem[ra]))
                          [] bh.reads = "lines" ->
                               EELines(Hex2(ra \div 256) \o Hex2(ra % 256)
                                          \o Hex2(mem[ra]))
                          [] bh.reads = "other" ->
                               EEReply(Hex2(0) \o Hex2((ra + 1) % 256)
                                          \o Hex2(mem[ra]))
                          [] \/ bh.reads = "garbled"
                             \/ bh.reads = "hole" /\ ra = sp.mem_high ->
                               EEReply(Hex2(ra \div 256) \o Hex2(ra % 256)
                                          \o <<63, 63>>)
                          [] OTHER -> NoData]
        ELSE IF /\ op = CMD_WRITE[2]
                /\ Len(payload) > ww
                /\ wa \in DOMAIN mem
                /\ SubSeq(payload, ww + 2, Len(payload)) = PrinterKey
                /\ bh.reads # "silent"
        THEN [mem   |-> CASE bh.stores = "yes"  ->
                               [mem EXCEPT ![wa] = payload[ww + 1]]
                          [] bh.stores = "ones" -> [mem EXCEPT ![wa] = 255]
                          [] OTHER -> mem,
              reply |-> IF bh.acks THEN OKReply ELSE NAReply]
        ELSE [mem |-> mem, reply |-> IF bh.reads = "silent" THEN NoData
                                     ELSE NAReply]

\* One entry of the log of an EEPROM operation: t is "c" (command m sent
\* on the control channel, r returned), "warn" (read_eeprom warns of an
\* invalid response for address m[1]) or "restore" (write_eeprom warns
\* that it restores the previous values).
EEv(t, m, r) == [t |-> t, m |-> m, r |-> r]

\* c(m) in Epson._ictrl: send m on the control channel, return the reply.
ctrl(e, m) ==
    LET ans == PrinterAnswer(e.printer, e.spec, e.eeprom, m)
    IN  [e EXCEPT !.eeprom = ans.mem,
                  !.r = ans.reply,
                  !.log = Append(@, EEv("c", m, ans.reply))]

RECURSIVE ReadLoop(_, _, _, _)
\* The body of the loop of read_eeprom, once e1.r is the reply for addr[i].
ReadReplied(e1, addr, i, res) ==
    LET v == parse_reply(e1.spec, addr[i], e1.r)
    IN  ReadLoop(IF v = NoneVal
                 THEN [e1 EXCEPT
                         !.log = Append(@, EEv("warn", <<addr[i]>>, e1.r))]
                 ELSE e1,
                 addr, i + 1, Append(res, <<addr[i], v>>))

\* The loop of read_eeprom over the addresses and the replies.
ReadLoop(e, addr, i, res) ==
    IF i > Len(addr) THEN [e EXCEPT !.ret = res]
    ELSE ReadReplied(ctrl(e, encode(e.spec, CMD_READ,
                                    PackLE(addr[i], Width(e.spec.rlen)))),
                     addr, i, res)

\* Epson.read_eeprom(*addr): every command is packed before the first one
\* is sent.
read_eeprom(e, addr) ==
    LET all == IF addr = <<>>
               THEN [i \in 1 .. (e.spec.mem_high + 1 - e.spec.mem_low) |->
                        e.spec.mem_low + i - 1]
               ELSE addr
    IN  IF \E i \in DOMAIN all : ~Packs(all[i], Width(e.spec.rlen))
        THEN [e EXCEPT !.exc = "struct.error"]
        ELSE ReadLoop(e, all, 1, <<>>)

RECURSIVE WriteLoop(_, _, _, _, _, _)
\* A check that takes the acknowledgement for the whole result of a pair.
WriteChecked_ack_only(e2, addrval, wkey, check_read, i, res) ==
    IF e2.exc # "" THEN e2
    ELSE WriteLoop(e2, addrval, wkey, check_read, i + 1, res)

\* res &= ... (self.read_eeprom(a) == [(a, v)]), once the read returned
\* e2.ret.
WriteChecked(e2, addrval, wkey, check_read, i, res) ==
    IF e2.exc # "" THEN e2
    ELSE WriteLoop(e2, addrval, wkey, check_read, i + 1,
                   res /\ e2.ret = <<<<addrval[i][1], addrval[i][2]>>>>)

\* The body of the loop of write_eeprom, once e1.r is the reply for
\* addrval[i].
WriteReplied(e1, addrval, wkey, check_read, i, res) ==
    IF e1.r = NoData THEN [e1 EXCEPT !.exc = "TypeError"]
    ELSE IF ~Contains(e1.r, <<58, 79, 75, 59>>)
    THEN WriteLoop(e1, addrval, wkey, check_read, i + 1, FALSE)
    ELSE IF ~check_read
    THEN WriteLoop(e1, addrval, wkey, check_read, i + 1, res)
    ELSE WriteChecked(read_eeprom(e1, <<addrval[i][1]>>), addrval, wkey,
                      check_read, i, res)

\* The loop of write_eeprom over the pairs and the replies.
WriteLoop(e, addrval, wkey, check_read, i, res) ==
    IF i > Len(addrval) THEN [e EXCEPT !.ret = res]
    ELSE WriteReplied(ctrl(e, encode(e.spec, CMD_WRITE,
                                     PackLE(addrval[i][1], Width(e.spec.wlen))
                                         \o <<addrval[i][2]>> \o wkey)),
                      addrval, wkey, check_read, i, res)

\* wkey = None
NoKey == <<NoneVal>>

\* Whether struct.pack('<'+c+'B', a, v) takes the pair av.
PacksPair(sp, av) == Packs(av[1], Width(sp.wlen)) /\ Packs(av[2], 1)

RECURSIVE write_eeprom(_, _, _, _, _)
\* write_eeprom returns res, whatever the restoring call returned.
WriteRestored(e3, res) ==
    IF e3.exc # "" THEN e3 ELSE [e3 EXCEPT !.ret = res]

\* An end of write_eeprom that restores nothing.
WriteDone_no_restore(e2, prev, wkey, check_read, atomic) == e2

\* The end of write_eeprom, once the loop has left its result in e2.ret:
\* if atomic and not res, the previous values are written back.
WriteDone(e2, prev, wkey, check_read, atomic) ==
    IF e2.exc # "" THEN e2
    ELSE IF atomic /\ ~e2.ret
    THEN WriteRestored(
            write_eeprom([e2 EXCEPT !.log = Append(@, EEv("restore", <<>>,
                                                          <<>>))],
                         prev, wkey, check_read, FALSE),
            e2.ret)
    ELSE e2

\* A write_eeprom that takes the key b'' when it has none.
WritePrev_empty_key(e1, addrval, wkey, check_read, atomic) ==
    IF e1.exc # "" THEN e1
    ELSE IF \E i \in DOMAIN addrval : ~PacksPair(e1.spec, addrval[i])
    THEN [e1 EXCEPT !.exc = "struct.error"]
    ELSE WriteDone(WriteLoop(e1, addrval,
                             IF wkey = NoKey THEN <<>> ELSE wkey,
                             check_read, 1, TRUE),
                   e1.ret, IF wkey = NoKey THEN <<>> ELSE wkey,
                   check_read, atomic)

\* write_eeprom once the previous values are read, if they were asked for:
\* every command is packed, and the key appended, before the first one is
\* sent.
WritePrev(e1, addrval, wkey, check_read, atomic) ==
    IF e1.exc # "" THEN e1
    ELSE IF addrval # <<>> /\ ~PacksPair(e1.spec, addrval[1])
    THEN [e1 EXCEPT !.exc = "struct.error"]
    ELSE IF addrval # <<>> /\ wkey = NoKey
    THEN [e1 EXCEPT !.exc = "TypeError"]
    ELSE IF \E i \in DOMAIN addrval : ~PacksPair(e1.spec, addrval[i])
    THEN [e1 EXCEPT !.exc = "struct.error"]
    ELSE WriteDone(WriteLoop(e1, addrval, wkey, check_read, 1, TRUE),
                   e1.ret, wkey, check_read, atomic)

\* Epson.write_eeprom(*addrval, wkey, check_read, atomic)
write_eeprom(e, addrval, wkey, check_read, atomic) ==
    WritePrev(IF atomic
              THEN read_eeprom(e, [i \in DOMAIN addrval |-> addrval[i][1]])
              ELSE e,
              addrval, IF wkey = NoKey THEN e.spec.wkey ELSE wkey,
              check_read, atomic)

(***************************************************************************)
(* Epson.find_wkey.  It returns the key found, <<k>> in ret, or None, <<>> *)
(* in ret.                                                                 *)
(***************************************************************************)
RECURSIVE FindLoop(_, _, _, _, _)

\* find_wkey after self.write_eeprom((addr, val), wkey=k), whose result is
\* not looked at: self.spec.wkey = k; return k.
FindRestored(e3, k) ==
    IF e3.exc # "" THEN e3
    ELSE [e3 EXCEPT !.spec.wkey = k, !.ret = <<k>>]

\* An end of find_wkey that writes the value back with the key of the
\* model spec.
FindTried_own_key(e2, ikeys, i, addr, val) ==
    IF e2.exc # "" THEN e2
    ELSE IF e2.ret
    THEN FindRestored(write_eeprom(e2, <<<<addr, val>>>>, NoKey, TRUE, FALSE),
                      ikeys[i])
    ELSE FindLoop(e2, ikeys, i + 1, addr, val)

\* The body of the loop of find_wkey, once write_eeprom((addr, newval),
\* wkey=k, check_read=True) has returned e2.ret.
FindTried(e2, ikeys, i, addr, val) ==
    IF e2.exc # "" THEN e2
    ELSE IF e2.ret
    THEN FindRestored(write_eeprom(e2, <<<<addr, val>>>>, ikeys[i], TRUE,
                                   FALSE),
                      ikeys[i])
    ELSE FindLoop(e2, ikeys, i + 1, addr, val)

\* The loop of find_wkey over the candidates.
FindLoop(e, ikeys, i, addr, val) ==
    IF i > Len(ikeys) THEN [e EXCEPT !.ret = <<>>]
    ELSE FindTried(write_eeprom(e, <<<<addr, val + 1>>>>, ikeys[i], TRUE,
                                FALSE),
                   ikeys, i, addr, val)

\* find_wkey after val = self.read_eeprom(addr)[0][1]: newval = val + 1
\* raises when the read gave None.
FindRead(e1, ikeys, addr) ==
    IF e1.exc # "" THEN e1
    ELSE IF e1.ret[1][2] = NoneVal THEN [e1 EXCEPT !.exc = "TypeError"]
    ELSE FindLoop(e1, ikeys, 1, addr, e1.ret[1][2])

\* find_wkey once addr is given or defaulted.
FindAt(e, ikeys, addr) == FindRead(read_eeprom(e, <<addr>>), ikeys, addr)

\* Epson.find_wkey(ikeys, addr)
find_wkey(e, ikeys, addr) ==
    FindAt(e, ikeys, IF addr = NoneVal THEN e.spec.mem_low ELSE addr)

\* The addresses the caller works on and the values it writes.
Addrs == {5, 6}
Vals  == {15}

\* The model spec of a printer with 2-byte addresses (the default) and of
\* one with 1-byte addresses.
Spec2 ==
    [rkey |-> 297, wkey |-> PrinterKey, rlen |-> 2, wlen |-> 2,
     mem_low |-> 5, mem_high |-> 6, mem |-> <<>>]
Spec1 == [Spec2 EXCEPT !.rlen = 1, !.wlen = 1]

\* A model spec without a write key, the default of Spec.
SpecNoKey == [Spec2 EXCEPT !.wkey = NoKey]

\* The EEPROM as shipped.
Shipped == [a \in Addrs |-> 66]

\* The ways the printer behaves during one operation.
Behaviours ==
    {[reads |-> "ok", acks |-> TRUE, stores |-> "yes"],
     [reads |-> "ok", acks |-> TRUE, stores |-> "no"],
     [reads |-> "ok", acks |-> TRUE, stores |-> "ones"],
     [reads |-> "ok", acks |-> FALSE, stores |-> "no"],
     [reads |-> "byte", acks |-> TRUE, stores |-> "yes"],
     [reads |-> "lines", acks |-> TRUE, stores |-> "yes"],
     [reads |-> "other", acks |-> TRUE, stores |-> "yes"],
     [reads |-> "garbled", acks |-> TRUE, stores |-> "yes"],
     [reads |-> "hole", acks |-> FALSE, stores |-> "no"],
     [reads |-> "silent", acks |-> TRUE, stores |-> "no"]}

\* The world of an EEPROM operation while the printer behaves as bh.
EWorld(bh) ==
    [spec |-> spec, eeprom |-> eeprom, printer |-> bh, log |-> <<>>,
     r |-> NoData, ret |-> <<>>, exc |-> ""]

\* The state after EEPROM operation op(arg) took the world to e.
ECommit(e, op, arg) ==
    /\ eeprom' = e.eeprom
    /\ last' = [op |-> op, arg |-> arg,
                pre |-> [eeprom |-> eeprom, printer |-> e.printer],
                log |-> e.log, ret |-> e.ret, exc |-> e.exc]
    /\ UNCHANGED <<peer, pipe, target_nctx, CMD_ENTER_D4, received, nctx,
                   credit, ch_nctx, txn_received, ch_received, protocol,
                   held, spec, wire_open>>

\* The lists of lo to MaxPairs addresses the caller passes: distinct and
\* in rising order, as the addr lists of the model specs are.
AddrLists(lo) ==
    {s \in UNION {[1 .. n -> Addrs] : n \in lo .. MaxPairs} :
        \A i \in DOMAIN s : \A j \in DOMAIN s : i < j => s[i] < s[j]}


\* epson.read_eeprom(*addr)
ReadEeprom(bh, addr) ==
    ECommit(read_eeprom(EWorld(bh), addr), "read_eeprom", [addr |-> addr])

\* epson.write_eeprom(*addrval, check_read=..., atomic=...)
WriteEeprom(bh, addrval, check_read, atomic) ==
    ECommit(write_eeprom(EWorld(bh), addrval, NoKey, check_read, atomic),
            "write_eeprom",
            [addrval |-> addrval, check_read |-> check_read,
             atomic |-> atomic])

(***************************************************************************)
(* The reset operations Epson builds from the mem entries of the spec.  An *)
(* entry is a record of desc (ASCII), addr, reset and min, the last two    *)
(* Absent when the entry has no such key.                                  *)
(***************************************************************************)
\* Most entries in the mem list of a spec.
MaxMem == 2

Absent == <<NoneVal>>

\* list(zip(a, b))
Zip(a, b) == [i \in 1 .. Min(Len(a), Len(b)) |-> <<a[i], b[i]>>]

\* [0]*n
Zeros(n) == [i \in 1 .. n |-> 0]

\* s.lower() of an ASCII string
Lower(s) == [i \in DOMAIN s |-> IF s[i] \in 65 .. 90 THEN s[i] + 32 ELSE s[i]]

\* re.search(pat, desc, re.I) for a pattern of letters and spaces
search(pat, desc) == Contains(Lower(desc), Lower(pat))

\* 'waste counter' and 'platen pad counter'
WasteCounter == <<119, 97, 115, 116, 101, 32, 99, 111, 117, 110, 116, 101, 114>>
PlatenPadCounter ==
    <<112, 108, 97, 116, 101, 110, 32, 112, 97, 100, 32>>
        \o SubSeq(WasteCounter, 7, 13)

\* av.update(ps) on a dict kept as the list of its items, in key order.
RECURSIVE DictUpdate(_, _)
DictUpdate(av, ps) ==
    IF ps = <<>> THEN av
    ELSE LET kv == Head(ps)
         IN  DictUpdate(IF \E i \in DOMAIN av : av[i][1] = kv[1]
                        THEN [i \in DOMAIN av |->
                                IF av[i][1] = kv[1] THEN kv ELSE av[i]]
                        ELSE Append(av, kv),
                        Tail(ps))

\* The loop of Spec.get_mem over the entries.
RECURSIVE MergeMem(_, _, _)
MergeMem(mem, pat, av) ==
    IF mem = <<>> THEN av
    ELSE LET m == Head(mem)
         IN  MergeMem(Tail(mem), pat,
                      IF search(pat, m.desc)
                      THEN DictUpdate(av,
                              Zip(m.addr, IF m.reset = Absent
                                          THEN Zeros(Len(m.addr))
                                          ELSE m.reset))
                      ELSE av)

\* get_mem returned None.
NoMem == [desc |-> Absent, addr |-> <<>>, reset |-> Absent, min |-> Absent]

\* Spec.get_mem(pat)
get_mem(sp, pat) ==
    LET av == MergeMem(sp.mem, pat, <<>>)
    IN  IF av = <<>> THEN NoMem
        ELSE [desc  |-> <<65, 108, 108, 32>> \o pat \o <<115>>,
              addr  |-> [i \in DOMAIN av |-> av[i][1]],
              reset |-> [i \in DOMAIN av |-> av[i][2]],
              min   |-> Absent]

\* Pairs that take the reset list of get_mem for the entry's own.
ResetPairs_as_get_mem(m) ==
    Zip(m.addr, IF m.reset = Absent THEN Zeros(Len(m.addr)) ELSE m.reset)

\* zip(addr, reset) in Epson._make_reset, after reset = reset or min or
\* [0]*len(addr).
ResetPairs(m) ==
    Zip(m.addr,
        IF m.reset \notin {Absent, <<>>} THEN m.reset
        ELSE IF m.min \notin {Absent, <<>>} THEN m.min
        ELSE Zeros(Len(m.addr)))

\* The function f Epson._make_reset(**m) returns, called.
make_reset(e, m) == write_eeprom(e, ResetPairs(m), NoKey, TRUE, TRUE)

\* The mem entries of the model specs the caller loads.
MemEntries ==
    {[desc  |-> <<87>> \o SubSeq(WasteCounter, 2, 13),
      addr  |-> <<5>>, reset |-> <<15>>, min |-> Absent],
     [desc  |-> <<87, 65, 83, 84, 69, 32, 67, 79, 85, 78, 84, 69, 82, 32, 50>>,
      addr  |-> <<6>>, reset |-> Absent, min |-> <<3>>],
     [desc  |-> <<70, 105, 114, 115, 116, 32>> \o WasteCounter,
      addr  |-> <<5, 6>>, reset |-> Absent, min |-> Absent],
     [desc  |-> <<80>> \o SubSeq(PlatenPadCounter, 2, 18),
      addr  |-> <<6>>, reset |-> <<15>>, min |-> <<3>>],
     [desc  |-> <<73, 110, 107>>,
      addr  |-> <<6>>, reset |-> Absent, min |-> Absent]}

\* How the printer behaves during a reset.
ResetBehaviours == {bh \in Behaviours : bh.reads = "ok" /\ bh.acks}

\* Epson._mem_ops: the entries the reset operations are made of, those of
\* spec.mem and then the merged ones, each with the pattern g it was merged
\* for (Absent for an entry of spec.mem).
mem_ops(sp) ==
    [i \in DOMAIN sp.mem |-> [m |-> sp.mem[i], g |-> Absent]]
        \o SelectSeq(<<[m |-> get_mem(sp, WasteCounter), g |-> WasteCounter],
                       [m |-> get_mem(sp, PlatenPadCounter),
                        g |-> PlatenPadCounter]>>,
                     LAMBDA x : x.m # NoMem)

\* getattr(epson, 'do_reset_...')() for the n-th operation of _mem_ops
DoReset(bh, n) ==
    /\ n \in DOMAIN mem_ops(spec)
    /\ ECommit(make_reset(EWorld(bh), mem_ops(spec)[n].m), "do_reset",
               [addrval |-> ResetPairs(mem_ops(spec)[n].m),
                check_read |-> TRUE, atomic |-> TRUE,
                g |-> mem_ops(spec)[n].g])

(***************************************************************************)
(* The specification of the Link used through its scopes.                  *)
(***************************************************************************)
NoOp ==
    [op |-> "", cid |-> TXCid, arg |-> <<>>,
     pre |-> [peer |-> GoodPeer, pipe |-> <<>>, target_nctx |-> 0, received |-> <<>>,
              nctx |-> 0, credit |-> [c \in Channels |-> 0],
              ch_nctx |-> [c \in DataCids |-> 0], protocol |-> 32,
              wire_open |-> {}],
     log |-> <<>>, reads |-> 0, reply |-> NoPacket, data |-> NoData,
     ok |-> NoneVal, exc |-> ""]

\* D4Link.__init__, TXChannel.__init__, Channel.__init__, FileIO.__init__
InitLink ==
    /\ peer = GoodPeer
    /\ pipe = <<>>
    /\ target_nctx = 0
    /\ CMD_ENTER_D4 = FALSE
    /\ received = <<>>
    /\ nctx = 0
    /\ credit = [c \in Channels |-> 0]
    /\ ch_nctx = [c \in DataCids |-> 0]
    /\ txn_received = NoPacket
    /\ ch_received = [c \in DataCids |-> NoData]
    /\ protocol = 32
    /\ held = 0
    /\ wire_open = {}
    /\ last = NoOp

\* A printer of the default model with its EEPROM as shipped.
Init ==
    /\ InitLink
    /\ spec = Spec2
    /\ eeprom = Shipped

\* A peer that speaks revision 0x10 only.
OldPeer == [GoodPeer EXCEPT !.rev = 16]

\* A peer that answers nothing.
DeadPeer == [GoodPeer EXCEPT !.grants = {}, !.answers = {}]

\* Where a peer may split a packet: inside the header and after it.
Cuts == 1 .. (hLen + 1)

\* The InitReply of a peer that is busy or speaks a revision of its own.
RefusedInit == {<<1, 32>>, <<11, 32>>, <<2, 48>>}

\* The peers of the caller that enters and exits the Link.
LinkPeers ==
    {GoodPeer, [GoodPeer EXCEPT !.hcredit = 0], OldPeer, MutePeer, DeadPeer}
    \cup {[GoodPeer EXCEPT !.cut = k] : k \in Cuts}
    \cup {[GoodPeer EXCEPT !.init = i] : i \in RefusedInit \cup {Alternately}}

\* The caller works through the channel's scope, as Epson does.
Next ==
    \/ \E cid \in DataCids : ChannelEnter(cid)
    \/ \E cid \in DataCids : ChannelExit(cid)
    \/ \E cid \in DataCids, data \in Payloads : ChannelSend(cid, data)
    \/ \E pr \in ChannelPeers : PeerBehaves(pr)

Spec == Init /\ [][Next]_vars

\* The caller enters and exits the Link in nested `with link:` blocks.
NextLink ==
    \/ LinkEnter
    \/ LinkExit
    \/ \E pr \in LinkPeers : PeerBehaves(pr)

SpecLink == Init /\ [][NextLink]_vars

\* The peers of the caller that makes transaction calls: some send another
\* packet before the answer, in a chunk of its own or in the answer's, and
\* one sends its answer in two chunks.
TxPeers ==
    {GoodPeer, DeadPeer, [GoodPeer EXCEPT !.noise = "reply", !.burst = TRUE],
     [GoodPeer EXCEPT !.cut = 7]}
    \cup {[GoodPeer EXCEPT !.noise = n] :
             n \in {"error", "reply", "data", "credit"}}

\* The transaction calls the caller makes.
TxCalls ==
    {[cmd |-> "OpenChannel", a |-> CtrlCid],
     [cmd |-> "CreditRequest", a |-> TXCid]}

\* The caller is inside `with link:`, entered against GoodPeer: the pipe
\* is open, Init is answered and its reply has brought one credit.
InitTx ==
    /\ peer = GoodPeer
    /\ pipe = <<>>
    /\ target_nctx = 1
    /\ CMD_ENTER_D4 = FALSE
    /\ received = <<>>
    /\ nctx = 1
    /\ credit = [c \in Channels |-> IF c = TXCid THEN 1 ELSE 0]
    /\ ch_nctx = [c \in DataCids |-> 0]
    /\ txn_received = [name |-> "InitReply", vals |-> <<0, 32>>, text |-> <<>>]
    /\ ch_received = [c \in DataCids |-> NoData]
    /\ protocol = 32
    /\ held = 1
    /\ wire_open = {}
    /\ last = NoOp
    /\ spec = Spec2
    /\ eeprom = Shipped

\* The peer changes its behaviour between two operations of the caller;
\* the history of the last operation is not kept across the change.
PeerTurns(pr) ==
    /\ peer # pr
    /\ peer' = pr
    /\ last' = NoOp
    /\ UNCHANGED <<pipe, target_nctx, CMD_ENTER_D4, received, nctx, credit,
                   ch_nctx, txn_received, ch_received, protocol, held,
                   spec, eeprom, wire_open>>

\* The caller makes transaction calls and polls the Link.
NextTx ==
    \/ \E c \in TxCalls : TxCall(c.cmd, c.a)
    \/ LinkRetreive
    \/ \E pr \in TxPeers : PeerTurns(pr)

SpecTx == InitTx /\ [][NextTx]_vars

\* What a peer may write when it receives the enter preamble: nothing, the
\* marker, the marker in two chunks, the marker behind other bytes in one
\* chunk, and the marker behind 2, 4 or 5 chunks of other bytes.
Stray == <<64>>

EnterAnswers ==
    {<<>>, <<ENTER_D4_REPLY>>,
     <<SubSeq(ENTER_D4_REPLY, 1, 3), SubSeq(ENTER_D4_REPLY, 4, 8)>>,
     <<Stray \o ENTER_D4_REPLY>>}
    \cup {[i \in 1 .. (k + 1) |-> IF i <= k THEN Stray ELSE ENTER_D4_REPLY] :
             k \in {2, 4, 5}}

\* A peer that answers and gives no credit.
MeanPeer == [GoodPeer EXCEPT !.hcredit = 0, !.grants = {}]

\* The peers of the caller that enters a Link with a preamble.
EnterPeers ==
    {[pr EXCEPT !.enter = e] :
        pr \in {GoodPeer, DeadPeer, MeanPeer}, e \in EnterAnswers}

\* EpsonD4._init_link: the Link has the preamble and its marker.
InitEnter ==
    /\ peer = GoodPeer
    /\ pipe = <<>>
    /\ target_nctx = 0
    /\ CMD_ENTER_D4 = TRUE
    /\ received = <<>>
    /\ nctx = 0
    /\ credit = [c \in Channels |-> 0]
    /\ ch_nctx = [c \in DataCids |-> 0]
    /\ txn_received = NoPacket
    /\ ch_received = [c \in DataCids |-> NoData]
    /\ protocol = 32
    /\ held = 0
    /\ wire_open = {}
    /\ last = NoOp
    /\ spec = Spec2
    /\ eeprom = Shipped

\* The caller enters and exits an EpsonD4 Link.
NextEnter ==
    \/ LinkEnter
    \/ LinkExit
    \/ \E pr \in EnterPeers : PeerTurns(pr)

SpecEnter == InitEnter /\ [][NextEnter]_vars

\* The caller reads and writes the EEPROM of a printer of either model.
InitEeprom ==
    /\ InitLink
    /\ spec \in {Spec2, Spec1, SpecNoKey}
    /\ eeprom = Shipped

NextEeprom ==
    \/ \E bh \in Behaviours, addr \in AddrLists(0) : ReadEeprom(bh, addr)
    \/ \E bh \in Behaviours, s \in AddrLists(1), v \in [1 .. MaxPairs -> Vals],
          check_read \in BOOLEAN, atomic \in BOOLEAN :
            WriteEeprom(bh, [i \in DOMAIN s |-> <<s[i], v[i]>>],
                        check_read, atomic)

SpecEeprom == InitEeprom /\ [][NextEeprom]_vars

\* The candidates of the caller that looks for the write key: b'', a key
\* that is not the printer's, and the printer's.
WrongKey == <<88>>

MaxKeys == 2

KeyLists ==
    {s \in UNION {[1 .. n -> {<<>>, WrongKey, PrinterKey}] : n \in 0 .. MaxKeys} :
        \A i \in DOMAIN s : \A j \in DOMAIN s : i < j => s[i] # s[j]}

\* The state after find_wkey(ikeys, addr) took the world to e.
KeyCommit(e, ikeys, addr) ==
    /\ eeprom' = e.eeprom
    /\ spec' = e.spec
    /\ last' = [op |-> "find_wkey", arg |-> [ikeys |-> ikeys, addr |-> addr],
                pre |-> [eeprom |-> eeprom, printer |-> e.printer,
                         spec |-> spec],
                log |-> e.log, ret |-> e.ret, exc |-> e.exc]
    /\ UNCHANGED <<peer, pipe, target_nctx, CMD_ENTER_D4, received, nctx,
                   credit, ch_nctx, txn_received, ch_received, protocol,
                   held, wire_open>>

\* epson.find_wkey(ikeys, addr)
FindWkey(bh, ikeys, addr) ==
    KeyCommit(find_wkey(EWorld(bh), ikeys, addr), ikeys, addr)

\* The ways the printer behaves while the caller looks for the key.
KeyBehaviours == {bh \in Behaviours : bh.reads \in {"ok", "other", "silent"}}

\* The model spec has the printer's key or another one, and the first
\* address holds a value or the highest one.
InitKey ==
    /\ InitLink
    /\ spec \in {Spec2, [Spec2 EXCEPT !.wkey = WrongKey], Spec1}
    /\ eeprom \in {Shipped, [Shipped EXCEPT ![5] = 255]}

\* The caller looks for the write key.
NextKey ==
    \E bh \in KeyBehaviours, ikeys \in KeyLists, addr \in {NoneVal, 6} :
        FindWkey(bh, ikeys, addr)

SpecKey == InitKey /\ [][NextKey]_vars

\* What the peer sends of its own accord: a data packet of the control
\* channel, whole or in two parts that arrive at different times; the
\* packet with a transaction packet behind it in the same transfer; a
\* transaction packet; a packet of a channel that is not in the table.
RxData  == DataPacket(CtrlCid, PeerData, 1)
RxReply == TxPacket(32, "CreditReply", <<0, 0, 0>>, 1)
RxOther == DataPacket(<<64, 64>>, <<70, 71>>, 1)

RxChunks ==
    {RxData, SubSeq(RxData, 1, hLen + 1),
     SubSeq(RxData, hLen + 2, Len(RxData)), RxData \o RxReply, RxReply,
     RxOther}

\* The peer writes one transfer to the pipe, once the caller has read the
\* one before, or a data packet right behind a packet of another id.
PeerWrites(b) ==
    /\ \/ pipe = <<>>
       \/ pipe \in {<<RxReply>>, <<RxOther>>} /\ b = RxData
    /\ pipe' = Append(pipe, b)
    /\ UNCHANGED <<peer, target_nctx, CMD_ENTER_D4, received, nctx, credit,
                   ch_nctx, txn_received, ch_received, protocol, held,
                   spec, eeprom, wire_open, last>>

\* The caller is inside `with channel:` of the control channel, entered
\* against GoodPeer, and has read every reply.
InitRx ==
    /\ peer = GoodPeer
    /\ pipe = <<>>
    /\ target_nctx = 1
    /\ CMD_ENTER_D4 = FALSE
    /\ received = <<>>
    /\ nctx = 1
    /\ credit = [c \in Channels |-> IF c = TXCid THEN 1 ELSE 0]
    /\ ch_nctx = [c \in DataCids |-> 1]
    /\ txn_received = NoPacket
    /\ ch_received = [c \in DataCids |-> NoData]
    /\ protocol = 32
    /\ held = 1
    /\ wire_open = DataCids
    /\ last = NoOp
    /\ spec = Spec2
    /\ eeprom = Shipped

\* The caller polls the Link and the channel while the peer sends.
NextRx ==
    \/ LinkRetreive
    \/ \E cid \in DataCids : ChannelRetreive(cid)
    \/ \E b \in RxChunks : PeerWrites(b)

SpecRx == InitRx /\ [][NextRx]_vars

\* link.retreive() while the peer has nothing in the pipe.
IdlePoll == pipe = <<>> /\ LinkRetreive

\* The caller keeps polling: while the pipe is empty, a call of retreive
\* that would change the state is made in the end.  Nothing is asked of
\* the peer, which may stay silent for good.
SpecRxFair == SpecRx /\ WF_vars(IdlePoll)

\* The caller loads a model spec with mem entries and runs the reset
\* operations Epson offers for it.
InitReset ==
    /\ InitLink
    /\ \E mem \in UNION {[1 .. n -> MemEntries] : n \in 1 .. MaxMem} :
          spec = [Spec2 EXCEPT !.mem = mem]
    /\ eeprom = Shipped

NextReset ==
    \E bh \in ResetBehaviours, n \in 1 .. (MaxMem + 2) : DoReset(bh, n)

SpecReset == InitReset /\ [][NextReset]_vars

(***************************************************************************)
(* The codecs, each applied to an input the initial state holds in `last`. *)
(***************************************************************************)
\* The longest payload the length field of a packet has room for.
MaxPayloadLen == 65535 - hLen

\* Values of a field of `width` bytes: the least, the greatest and, for two
\* bytes, one whose bytes differ.
FieldVals(width) == IF width = 1 THEN {0, 255} ELSE {0, 258, 65535}

\* The argument lists of a row, one value per fixed field.
ArgsOf(row) ==
    {a \in [1 .. NFixed(row) -> {0, 255, 258, 65535}] :
        \A i \in 1 .. NFixed(row) : a[i] \in FieldVals(row.fmt[i])}

\* Service names: none, 'EPSON-CTRL' and the ends of printable ASCII.
ServiceNames ==
    {<<>>, <<69, 80, 83, 79, 78, 45, 67, 84, 82, 76>>, <<32, 126>>}

\* Opcode and payload of the factory commands encoded.
EncodeInputs ==
    [cmd : {<<124, c>> : c \in 0 .. 255},
     payload : {<<>>, <<5, 0, 15>> \o PrinterKey}]

PacketInputs ==
    [payload : {<<>>, <<7>>, [i \in 1 .. 250 |-> i]},
     psid : {0, 2, 255}, ssid : {0, 2, 255}, credit : {0, 1, 255},
     control : {0, 1, 255}]
    \cup [payload : {[i \in 1 .. MaxPayloadLen |-> i % 256]},
          psid : {2}, ssid : {2}, credit : {0, 255}, control : {0}]

TxInputs ==
    UNION {UNION {[rev : {rev}, cmd : {cmd}, a : ArgsOf(Table(rev)[cmd]),
                   text : IF Table(rev)[cmd].star THEN ServiceNames
                          ELSE {<<>>}] :
                     cmd \in DOMAIN Table(rev)} :
              rev \in {16, 32}}

\* The replies of the tables.
ReplyNames ==
    {"InitReply", "OpenChannelReply", "CloseChannelReply", "CreditReply",
     "CreditRequestReply", "ExitReply", "GetSocketIDReply",
     "GetServiceNameReply"}

\* Replies cut short: keep is the number of bytes left after the opcode,
\* fewer than the fixed layout of the row has.
ShortInputs ==
    UNION {UNION {[rev : {rev}, cmd : {cmd}, a : ArgsOf(Table(rev)[cmd]),
                   keep : 0 .. (SumSeq(Table(rev)[cmd].fmt) - 1)] :
                     cmd \in ReplyNames} :
              rev \in {16, 32}}

InitCodec ==
    /\ peer = GoodPeer
    /\ pipe = <<>>
    /\ target_nctx = 0
    /\ CMD_ENTER_D4 = FALSE
    /\ received = <<>>
    /\ nctx = 0
    /\ credit = [c \in Channels |-> 0]
    /\ ch_nctx = [c \in DataCids |-> 0]
    /\ txn_received = NoPacket
    /\ ch_received = [c \in DataCids |-> NoData]
    /\ protocol = 32
    /\ held = 0
    /\ wire_open = {}
    /\ eeprom = Shipped
    /\ \/ /\ spec \in {[sp EXCEPT !.rkey = k] :
                          sp \in {Spec2, Spec1}, k \in {0, 297, 65535}}
          /\ last \in [op : {"in"}, fn : {"encode"}, arg : EncodeInputs]
       \/ /\ spec = Spec2
          /\ last \in [op : {"in"}, fn : {"packet"}, arg : PacketInputs]
                      \cup [op : {"in"}, fn : {"tx"}, arg : TxInputs]
                      \cup [op : {"in"}, fn : {"short"}, arg : ShortInputs]

\* The state after function fn took the input in `last` to out.
Applied(fn, out) ==
    /\ last.op = "in"
    /\ last.fn = fn
    /\ last' = [op |-> fn, arg |-> last.arg, out |-> out]
    /\ UNCHANGED <<peer, pipe, target_nctx, CMD_ENTER_D4, received, nctx,
                   credit, ch_nctx, txn_received, ch_received, protocol,
                   held, spec, eeprom, wire_open>>

\* epson.encode(('|', chr(c)), payload)
EpsonEncode ==
    Applied("encode", encode(spec, last.arg.cmd, last.arg.payload))

\* D4Link.protocol.decode(D4Link.protocol.encode(payload, psid, ...))
PacketCodec ==
    Applied("packet",
            PacketDecode(PacketEncode(last.arg.payload, last.arg.psid,
                                      last.arg.ssid, last.arg.credit,
                                      last.arg.control)))

\* b = protocol.encode(cmd, *a); protocol.decode(b)
TxCodecApplied(b) ==
    Applied("tx", [b |-> b, p |-> TxDecode(last.arg.rev, b)])

TxCodec ==
    TxCodecApplied(TxEncode(last.arg.rev, last.arg.cmd, last.arg.a,
                            last.arg.text))

\* protocol.decode(b) of a reply of which the device sent the opcode and
\* the first keep bytes only.
TxShort ==
    Applied("short",
            TxDecode(last.arg.rev,
                     SubSeq(TxEncode(last.arg.rev, last.arg.cmd, last.arg.a,
                                     <<>>),
                            1, 1 + last.arg.keep)))

NextCodec ==
    \/ EpsonEncode
    \/ PacketCodec
    \/ TxCodec
    \/ TxShort

SpecCodec == InitCodec /\ [][NextCodec]_vars

(***************************************************************************)
(* Reading the log of the last operation.                                  *)
(***************************************************************************)
\* The bytes of the log's entries of kind t, in order.
EntriesOf(log, t) == SelectSeq(log, LAMBDA e : e.t = t)

BytesOf(log, t) ==
    [i \in 1 .. Len(EntriesOf(log, t)) |-> EntriesOf(log, t)[i].b]

Written(log) == BytesOf(log, "w")
Read(log) == BytesOf(log, "r")

\* The name of the transaction command written in packet b, "" for a data
\* packet.
WrittenCmd(b) ==
    IF WrittenTx(b) = NoneVal THEN ""
    ELSE TxDecode(32, SubSeq(b, hLen + 1, Len(b))).name

(***************************************************************************)
(* C1: a send on a data channel whose credit is 0, answered by the peer    *)
(* with CreditRequestReply(result=0, addCredit=1) for that channel and     *)
(* nothing else, writes exactly one CreditRequest, then the data packet    *)
(* with the payload, and leaves the channel's credit at 0.                 *)
(***************************************************************************)
C1_Case ==
    /\ last.op = "ChannelSend"
    /\ last.pre.credit[last.cid] = 0
    /\ last.pre.pipe = <<>>
    /\ last.pre.received = <<>>
    /\ \E h \in {0, 1} :
         Read(last.log) =
            <<TxPacket(last.pre.protocol, "CreditRequestReply",
                       <<0, last.cid[1], last.cid[2], 1>>, h)>>

C1_CreditRequestThenData ==
    C1_Case =>
        /\ Written(last.log) =
              <<TxPacket(last.pre.protocol, "CreditRequest", last.cid, 1),
                DataPacket(last.cid, last.arg, 1)>>
        /\ credit[last.cid] = 0
        /\ last.exc = ""

C1_Witness ==
    /\ C1_Case
    /\ Len(Written(last.log)) = 2
    /\ credit[last.cid] = 0

(***************************************************************************)
(* C6: the credit of the channel is non-negative whenever D4Link.send is   *)
(* called on it, the unchecked sends of CreditRequest included.            *)
(***************************************************************************)
C6_CreditNonNegativeAtSend ==
    \A i \in DOMAIN last.log :
        last.log[i].t = "send" => last.log[i].n >= 0

(***************************************************************************)
(* C7: transaction commands are strictly sequential.  From the write of a  *)
(* transaction command to the end of its wait no other transaction         *)
(* command is written; the CreditRequest that obtains the credit for a     *)
(* command has returned when the command is written.                       *)
(***************************************************************************)
\* out is the command written whose call has not returned, "" if none.
RECURSIVE OneAtATime(_, _)
OneAtATime(log, out) ==
    IF log = <<>> THEN TRUE
    ELSE LET e == Head(log)
         IN  IF e.t = "w" /\ WrittenCmd(e.b) # ""
             THEN out = "" /\ OneAtATime(Tail(log), WrittenCmd(e.b))
             ELSE IF e.t = "ret" /\ e.cmd = out
             THEN OneAtATime(Tail(log), "")
             ELSE OneAtATime(Tail(log), out)

C7_OneOutstanding ==
    OneAtATime(SelectSeq(last.log, LAMBDA e : e.t \in {"w", "ret"}), "")

\* An OpenChannel that had to ask for credit first and was then written.
C7_Witness ==
    /\ last.op = "ChannelEnter"
    /\ \E i, j \in DOMAIN last.log :
          /\ i < j
          /\ last.log[i].t = "ret" /\ last.log[i].cmd = "CreditRequest"
          /\ last.log[j].t = "w" /\ WrittenCmd(last.log[j].b) = "OpenChannel"

(***************************************************************************)
(* C8: a data packet is written on a channel only after an OpenChannel     *)
(* for it in the same session, with no CloseChannel in between, and the    *)
(* channels opened are closed when Exit is written.                        *)
(***************************************************************************)
\* open is the set of channels open on the wire before the log.
RECURSIVE OpenWhileUsed(_, _)
OpenWhileUsed(open, log) ==
    IF log = <<>> THEN TRUE
    ELSE LET e == Head(log)
             c == WrittenCmd(e.b)
         IN  IF e.t # "w" \/ Len(e.b) < hLen
             THEN OpenWhileUsed(open, Tail(log))
             ELSE IF c = ""
             THEN <<e.b[1], e.b[2]>> \in open
                    /\ OpenWhileUsed(open, Tail(log))
             ELSE IF c = "Exit"
             THEN open = {} /\ OpenWhileUsed(open, Tail(log))
             ELSE OpenWhileUsed(WireOpenAfter(open, <<e>>), Tail(log))

C8_OpenBeforeData ==
    OpenWhileUsed(last.pre.wire_open, EntriesOf(last.log, "w"))

(***************************************************************************)
(* C2: a packet that arrives split in two chunks, at any point of its      *)
(* bytes, is reassembled by D4Link.retreive and dispatched exactly once.   *)
(* The case is an entry into the Link whose first Init is answered by an   *)
(* InitReply the peer splits in two.                                       *)
(***************************************************************************)
Dispatched(log) == BytesOf(log, "d")

C2_Case ==
    /\ last.op = "LinkEnter"
    /\ last.pre.nctx = 0
    /\ last.pre.pipe = <<>>
    /\ last.pre.received = <<>>
    /\ last.pre.peer.cut > 0
    /\ last.pre.peer.rev = 32

C2_SplitReassembled ==
    C2_Case => Dispatched(last.log) = <<TxEncode(32, "InitReply",
                                                  <<0, 32>>, <<>>)>>

(***************************************************************************)
(* C3 as stated: Exit is written if and only if the Link's scope counter   *)
(* returns to zero, and Init only when the counter leaves zero.            *)
(***************************************************************************)
\* How many times transaction command cmd is written in the log.
TimesWritten(log, cmd) ==
    Len(SelectSeq(log, LAMBDA e : e.t = "w" /\ WrittenCmd(e.b) = cmd))

Returned(log) ==
    [i \in 1 .. Len(EntriesOf(log, "ret")) |-> EntriesOf(log, "ret")[i].p]

InitReplyOf(res, rev) ==
    [name |-> "InitReply", vals |-> <<res, rev>>, text |-> <<>>]

C4_Case ==
    /\ last.op = "LinkEnter"
    /\ last.pre.nctx = 0
    /\ Returned(last.log) # <<>>
    /\ Returned(last.log)[1] = InitReplyOf(2, 16)

C4_Renegotiates ==
    C4_Case =>
        /\ Len(Written(last.log)) >= 2
        /\ Written(last.log)[1] = TxPacket(32, "Init", <<32>>, 1)
        /\ Written(last.log)[2] = TxPacket(16, "Init", <<16>>, 1)
        /\ (Len(Returned(last.log)) >= 2
              /\ Returned(last.log)[2] = InitReplyOf(0, 16))
           => /\ last.exc = ""
              /\ nctx = 1
              /\ protocol = 16
              /\ Len(Written(last.log)) = 2

C4_Witness ==
    /\ C4_Case
    /\ Len(Returned(last.log)) = 2
    /\ Returned(last.log)[2] = InitReplyOf(0, 16)
    /\ nctx = 1
    /\ protocol = 16

(***************************************************************************)
(* C5: after every enter or exit of the Link, completed or failed, the     *)
(* byte pipe is open if and only if the Link's scope counter is above 0.   *)
(***************************************************************************)
C5_PipeOpenIffScoped == (target_nctx > 0) <=> (nctx > 0)

(***************************************************************************)
(* Reading the log of the last EEPROM operation.                           *)
(***************************************************************************)
\* The commands the operation sent, with their replies, in order.
IsCommand(x) == x.t = "c"
Sent == SelectSeq(last.log, IsCommand)

\* Command j is the read command for address a.
IsRead(j, a) ==
    /\ j \in DOMAIN Sent
    /\ Sent[j].m = encode(spec, CMD_READ, PackLE(a, Width(spec.rlen)))

\* Command j is the write command for address a carrying v.
IsWrite(j, a, v) ==
    /\ j \in DOMAIN Sent
    /\ Sent[j].m = encode(spec, CMD_WRITE,
                          PackLE(a, Width(spec.wlen)) \o <<v>> \o spec.wkey)

\* The commands with opcode byte c.
Commands(c) == {j \in DOMAIN Sent : Sent[j].m[7] = c}
ReadCommands  == Commands(CMD_READ[2])
WriteCommands == Commands(CMD_WRITE[2])

\* The value the reply to command j carries for address a, NoneVal if none.
ValueAt(j, a) == parse_reply(spec, a, Sent[j].r)

\* The reply to command j contains ':OK;'.
Acked(j) ==
    /\ Sent[j].r # NoData
    /\ Contains(Sent[j].r, <<58, 79, 75, 59>>)

\* Whether the operation went on to restore the previous values.
Restored == \E k \in DOMAIN last.log : last.log[k].t = "restore"

\* The commands sent before the restoring ones, if there are any.
BeforeRestore ==
    LET at == IF Restored
              THEN CHOOSE k \in DOMAIN last.log : last.log[k].t = "restore"
              ELSE Len(last.log) + 1
    IN  1 .. Len(SelectSeq(SubSeq(last.log, 1, at - 1), IsCommand))

(***************************************************************************)
(* C11 as stated: with rlen=2, read_eeprom(a, ...) sends one factory 'A'   *)
(* command per address, and yields (a, v) when the reply is                *)
(* '@BDC PS EE:' with 6 hex characters for a (2 bytes, big-endian) and v   *)
(* and then ';', and (a, none) for every other reply.                      *)
(***************************************************************************)
\* read_eeprom called with addresses on a printer with 2-byte addresses.
C11_Case ==
    /\ last.op = "read_eeprom"
    /\ last.arg.addr # <<>>
    /\ spec.rlen = 2

\* '@BDC PS EE:aaaavv;'
C11_Form(a, v) == EEReply(Hex2(a \div 256) \o Hex2(a % 256) \o Hex2(v))

\* '@BDC PS\r\nEE:aaaavv;\r\n'
C11_FormLines(a, v) == EELines(Hex2(a \div 256) \o Hex2(a % 256) \o Hex2(v))

\* One command per address, in order, and nothing raised.
C11_OnePerAddress ==
    /\ last.exc = ""
    /\ Len(Sent) = Len(last.arg.addr)
    /\ Len(last.ret) = Len(last.arg.addr)
    /\ \A i \in DOMAIN last.arg.addr : IsRead(i, last.arg.addr[i])

C11_ValueOnlyInExactForm ==
    C11_Case =>
        /\ C11_OnePerAddress
        /\ \A i \in DOMAIN last.arg.addr :
              LET a == last.arg.addr[i]
                  V == {v \in 0 .. 255 : Sent[i].r = C11_Form(a, v)}
              IN  /\ \A v \in V : last.ret[i] = <<a, v>>
                  /\ V = {} => last.ret[i] = <<a, NoneVal>>

(***************************************************************************)
(* C11 amended: with rlen=2, read_eeprom(a, ...) sends one factory 'A'     *)
(* command per address.  It yields (a, v) when the reply is                *)
(* '@BDC PS EE:aaaavv;', and also when other text stands before the        *)
(* whitespace that precedes 'EE:' or after the ';', as in                  *)
(* '@BDC PS\r\nEE:aaaavv;\r\n'.  It yields (a, none) when the address      *)
(* echoed differs from a, when the digits are not hexadecimal and when     *)
(* there is no reply.                                                      *)
(***************************************************************************)
C11_ValueWhenEchoed ==
    C11_Case =>
        /\ C11_OnePerAddress
        /\ \A i \in DOMAIN last.arg.addr :
              LET a == last.arg.addr[i]
                  V == {v \in 0 .. 255 :
                          Sent[i].r \in {C11_Form(a, v), C11_FormLines(a, v)}}
              IN  /\ \A v \in V : last.ret[i] = <<a, v>>
                  /\ V = {} => last.ret[i] = <<a, NoneVal>>

\* Two addresses read from a printer that ends its lines.
C11_Witness ==
    /\ C11_Case
    /\ Len(last.arg.addr) = 2
    /\ \A i \in DOMAIN last.arg.addr :
          LET a == last.arg.addr[i]
          IN  /\ Sent[i].r = C11_FormLines(a, eeprom[a])
              /\ last.ret[i] = <<a, eeprom[a]>>

(***************************************************************************)
(* C12: the aggregate reset operation for 'waste counter' or 'platen pad   *)
(* counter' makes one atomic write_eeprom call.  Its pairs hold every      *)
(* address of every mem entry whose desc contains the pattern, whatever    *)
(* the case of the letters, each address once, and each with the value the *)
(* reset operation of an entry that holds the address writes: from the     *)
(* entry's reset list, else from its min list, else 0.                     *)
(***************************************************************************)
\* The entries of spec.mem whose desc matches the pattern of the call.
C12_Matching == {i \in DOMAIN spec.mem : search(last.arg.g, spec.mem[i].desc)}

\* The value the reset operation of entry m writes at its k-th address.
C12_OwnValue(m, k) ==
    IF m.reset \notin {Absent, <<>>} THEN m.reset[k]
    ELSE IF m.min \notin {Absent, <<>>} THEN m.min[k]
    ELSE 0

C12_AggregateWritesOwnValues ==
    (last.op = "do_reset" /\ last.arg.g # Absent) =>
        LET pairs == last.arg.addrval
        IN  /\ last.arg.atomic
            /\ \A i, j \in DOMAIN pairs : pairs[i][1] = pairs[j][1] => i = j
            /\ {pairs[i][1] : i \in DOMAIN pairs}
                  = UNION {{spec.mem[i].addr[k] : k \in DOMAIN spec.mem[i].addr} :
                              i \in C12_Matching}
            /\ \A n \in DOMAIN pairs :
                  \E i \in C12_Matching : \E k \in DOMAIN spec.mem[i].addr :
                      pairs[n] = <<spec.mem[i].addr[k],
                                   C12_OwnValue(spec.mem[i], k)>>

(***************************************************************************)
(* C13: for every opcode byte c, every 16-bit rkey and every payload p,    *)
(* Epson.encode(('|', c), p) is '||', then 5 + len(p) as u16               *)
(* little-endian, rkey as u16 little-endian, c, the complement of c, c     *)
(* rotated right by one bit, and p.  The check bytes of 'A' are 41 BE A0,  *)
(* those of 'B' 42 BD 21, and they are there whatever the model spec.      *)
(***************************************************************************)
\* Bit k of byte c.
C13_Bit(c, k) == (c \div (2 ^ k)) % 2

\* The byte whose bit k is f[k].
C13_Byte(f) ==
    f[0] + 2 * f[1] + 4 * f[2] + 8 * f[3] + 16 * f[4] + 32 * f[5]
        + 64 * f[6] + 128 * f[7]

\* ~c & 0xFF and rot1(c)
C13_Complement(c) == C13_Byte([k \in 0 .. 7 |-> 1 - C13_Bit(c, k)])
C13_Rot1(c) == C13_Byte([k \in 0 .. 7 |-> C13_Bit(c, (k + 1) % 8)])

C13_FactoryFrame ==
    last.op = "encode" =>
        LET c == last.arg.cmd[2]
            n == 5 + Len(last.arg.payload)
        IN  /\ last.out = <<124, 124, n % 256, n \div 256,
                            spec.rkey % 256, spec.rkey \div 256,
                            c, C13_Complement(c), C13_Rot1(c)>>
                              \o last.arg.payload
            /\ c = 65 => SubSeq(last.out, 7, 9) = <<65, 190, 160>>
            /\ c = 66 => SubSeq(last.out, 7, 9) = <<66, 189, 33>>

\* The write command of a model with 1-byte addresses and rkey 0xFFFF.
C13_Witness ==
    /\ last.op = "encode"
    /\ last.arg.cmd[2] = 66
    /\ last.arg.payload # <<>>
    /\ spec.rlen = 1
    /\ spec.rkey = 65535
    /\ SubSeq(last.out, 1, 9) = <<124, 124, 16, 0, 255, 255, 66, 189, 33>>

(***************************************************************************)
(* C14: decoding the packet encode(payload, psid, ssid, credit, control)   *)
(* gives a header with these four values and length = 6 + len(payload),    *)
(* and the payload, for fields in 0..255 and payloads of up to 65529       *)
(* bytes.                                                                  *)
(***************************************************************************)
C14_PacketRoundTrip ==
    last.op = "packet" =>
        /\ last.out.header =
              [psid |-> last.arg.psid, ssid |-> last.arg.ssid,
               length |-> 6 + Len(last.arg.payload),
               credit |-> last.arg.credit, control |-> last.arg.control]
        /\ last.out.payload = last.arg.payload

\* The longest payload there is room for.
C14_Witness ==
    /\ last.op = "packet"
    /\ Len(last.arg.payload) = 65529
    /\ last.out.header.length = 65535
    /\ last.out.header.credit = 255
    /\ last.out.payload = last.arg.payload

(***************************************************************************)
(* C15: for every command of the revision-0x10 table and of the            *)
(* revision-0x20 table, and field values in range, decoding the encoded    *)
(* command with the same table gives the command's name and the same field *)
(* values (and the same service name), and the first encoded byte is the   *)
(* command's opcode.                                                       *)
(***************************************************************************)
C15_TxRoundTrip ==
    last.op = "tx" =>
        /\ last.out.p = [name |-> last.arg.cmd, vals |-> last.arg.a,
                         text |-> last.arg.text]
        /\ last.out.b[1] = Table(last.arg.rev)[last.arg.cmd].code

\* The OpenChannel of revision 0x10, six fields with two-byte values whose
\* bytes differ.
C15_Witness ==
    /\ last.op = "tx"
    /\ last.arg.rev = 16
    /\ last.arg.cmd = "OpenChannel"
    /\ last.arg.a = <<255, 0, 258, 65535, 258, 0>>
    /\ last.out.b = <<1, 255, 0, 1, 2, 255, 255, 1, 2, 0, 0>>
    /\ last.out.p.vals = last.arg.a

(***************************************************************************)
(* C9: write_eeprom with atomic=true reads every target address before     *)
(* it writes.  For a single pair (a, v) whose original value was read,     *)
(* whose write is acknowledged and whose readback does not return v, the   *)
(* call issues exactly one more write command, for a with the original     *)
(* value, and returns false.                                               *)
(***************************************************************************)
C9_Atomic ==
    /\ last.op = "write_eeprom"
    /\ last.arg.atomic

C9_Case ==
    /\ C9_Atomic
    /\ Len(last.arg.addrval) = 1
    /\ LET a == last.arg.addrval[1][1]
           v == last.arg.addrval[1][2]
       IN  /\ IsRead(1, a)
           /\ ValueAt(1, a) = last.pre.eeprom[a]
           /\ IsWrite(2, a, v)
           /\ Acked(2)
           /\ IsRead(3, a)
           /\ ValueAt(3, a) # v

PairOk(i) ==
    LET a == last.arg.addrval[i][1]
        v == last.arg.addrval[i][2]
    IN  \E j \in BeforeRestore :
           /\ IsWrite(j, a, v)
           /\ Acked(j)
           /\ last.arg.check_read => (IsRead(j + 1, a) /\ ValueAt(j + 1, a) = v)

\* The reads write_eeprom makes before it writes.
PreReads == IF last.arg.atomic THEN Len(last.arg.addrval) ELSE 0

C10_TrueIffAllPairsOk ==
    last.op = "write_eeprom" =>
        /\ last.exc = ""
              => (last.ret = TRUE
                    <=> \A i \in DOMAIN last.arg.addrval : PairOk(i))
        /\ ~last.arg.check_read => \A j \in ReadCommands : j <= PreReads
        /\ (last.exc = "" /\ last.ret = TRUE)
              => /\ Cardinality(WriteCommands) = Len(last.arg.addrval)
                 /\ ~Restored

\* Two pairs written and read back, and true returned.
C10_Witness ==
    /\ last.op = "write_eeprom"
    /\ last.arg.check_read
    /\ last.arg.atomic
    /\ Len(last.arg.addrval) = 2
    /\ last.exc = ""
    /\ last.ret = TRUE
    /\ \A i \in DOMAIN last.arg.addrval : PairOk(i)

(***************************************************************************)
(* C16: one call of D4Link.retreive dispatches at most one packet.  When   *)
(* its buffer together with the bytes it has read holds several complete   *)
(* packets, the first one is dispatched and the bytes after it are the     *)
(* buffer the next call starts from.                                       *)
(***************************************************************************)
\* The calls of retreive in the log of the last operation.
C16_Polls == {i \in DOMAIN last.log : last.log[i].t = "poll"}

\* The last entry of the call of retreive that starts at entry i.
C16_End(i) ==
    IF \E j \in C16_Polls : j > i
    THEN (CHOOSE j \in C16_Polls : j > i /\ \A k \in C16_Polls : k > i => j <= k) - 1
    ELSE Len(last.log)

\* The buffer of the call at i with all the bytes the call has read.
C16_All(i) ==
    last.log[i].b \o Joined(BytesOf(SubSeq(last.log, i, C16_End(i)), "r"))

\* The packets the call at i has dispatched.
C16_Dispatches(i) ==
    {k \in i .. C16_End(i) : last.log[k].t = "d"}

\* The buffer the call at i leaves.
C16_Left(i) ==
    IF C16_End(i) = Len(last.log) THEN received
    ELSE last.log[C16_End(i) + 1].b

\* The length the first packet in b declares.
C16_FirstLen(b) == 256 * b[3] + b[4]

C16_OnePacketPerRetreive ==
    \A i \in C16_Polls :
        /\ Cardinality(C16_Dispatches(i)) <= 1
        /\ \A k \in C16_Dispatches(i) :
              /\ Len(C16_All(i)) >= C16_FirstLen(C16_All(i))
              /\ last.log[k].b
                    = SubSeq(C16_All(i), hLen + 1, C16_FirstLen(C16_All(i)))
              /\ C16_Left(i)
                    = SubSeq(C16_All(i), C16_FirstLen(C16_All(i)) + 1,
                             Len(C16_All(i)))

\* A call that read two complete packets in one chunk: it has dispatched
\* the first and left the second, whole, in the buffer.
C16_Witness ==
    \E i \in C16_Polls :
        /\ C16_Dispatches(i) # {}
        /\ C16_Left(i) # <<>>
        /\ Len(C16_Left(i)) >= hLen
        /\ Len(C16_Left(i)) = C16_FirstLen(C16_Left(i))

(***************************************************************************)
(* C17 as stated: a checked send that finds the credit below cost asks     *)
(* for credit one round at a time, at most three rounds, and writes the    *)
(* packet once the credit has reached cost after a round, whichever of     *)
(* the three it is.                                                        *)
(***************************************************************************)
\* The checked sends in the log of the last operation.
C17_Sends ==
    {i \in DOMAIN last.log :
        /\ last.log[i].t = "send"
        /\ last.log[i].cmd \notin {"CreditRequest", "Credit"}}

C17_Cost(i) == IF last.log[i].cmd = "Init" THEN 0 ELSE 1

\* The last entry of the send at i: the rounds of a send make unchecked
\* sends only.
C17_End(i) ==
    IF \E j \in C17_Sends : j > i
    THEN (CHOOSE j \in C17_Sends : j > i /\ \A k \in C17_Sends : k > i => j <= k) - 1
    ELSE Len(last.log)

\* The rounds of CreditRequest of the send at i.
C17_Rounds(i) ==
    {k \in i .. C17_End(i) : last.log[k].t = "asked"}

\* The packet of the send at i is written after entry k.
C17_WrittenAfter(i, k) ==
    \E m \in (k + 1) .. C17_End(i) :
        /\ last.log[m].t = "w"
        /\ last.log[m].b = DataPacket(last.log[i].cid, last.log[i].b, 1)

\* The CreditRequest commands written from entry a to entry b.
C17_Requests(a, b) ==
    {m \in a .. b :
        /\ last.log[m].t = "w"
        /\ WrittenCmd(last.log[m].b) = "CreditRequest"}

C17_WrittenAfterAnyRound ==
    last.exc = "" =>
        \A i \in C17_Sends :
            last.log[i].n < C17_Cost(i) =>
                /\ Cardinality(C17_Rounds(i)) <= CreditRounds
                /\ Cardinality(C17_Requests(i, C17_End(i)))
                      = Cardinality(C17_Rounds(i))
                /\ \A k \in C17_Rounds(i) :
                      IF last.log[k].n >= C17_Cost(i)
                      THEN C17_WrittenAfter(i, k)
                      ELSE \/ \E j \in C17_Rounds(i) : j > k
                           \/ Cardinality(C17_Rounds(i)) = CreditRounds

(***************************************************************************)
(* C18: a checked send whose channel still has less credit than the cost   *)
(* after its three rounds of CreditRequest writes no packet for the        *)
(* payload, returns none and does not touch the channel's credit.  The     *)
(* case is channel.send(data) on a data channel, cost 1.                   *)
(***************************************************************************)
\* The rounds of CreditRequest of the last operation, a channel.send.
C18_Rounds ==
    {k \in DOMAIN last.log :
        last.log[k].t = "asked" /\ last.log[k].cid = last.cid}

C18_LastRound == CHOOSE k \in C18_Rounds : \A j \in C18_Rounds : j <= k

C18_Exhausted ==
    /\ last.op = "ChannelSend"
    /\ last.exc = ""
    /\ Cardinality(C18_Rounds) = CreditRounds
    /\ last.log[C18_LastRound].n < 1

\* The packets written on channel cid in the log.
C18_WrittenOn(cid) ==
    {k \in DOMAIN last.log :
        /\ last.log[k].t = "w"
        /\ SubSeq(last.log[k].b, 1, 2) = cid}

C19_Waits == {i \in DOMAIN last.log : last.log[i].t = "wait"}

\* The entry where the call that waits from entry i returns.
C19_Ret(i) ==
    CHOOSE j \in DOMAIN last.log :
        /\ j > i
        /\ last.log[j].t = "ret"
        /\ \A k \in (i + 1) .. (j - 1) : last.log[k].t # "ret"

\* The packets dispatched while the call at i waits.
C19_Received(i) ==
    {k \in i .. C19_Ret(i) : last.log[k].t = "d"}

\* Entry k is the dispatch of the reply to cmd.
C19_Matches(k, cmd) ==
    /\ last.log[k].cid = TXCid
    /\ last.log[k].b # <<>>
    /\ TxDecode(protocol, last.log[k].b) # Invalid
    /\ TxDecode(protocol, last.log[k].b).name = cmd \o "Reply"

\* The call polls again between entries k and j.
C19_PollsAgain(k, j) ==
    \E m \in (k + 1) .. (j - 1) : last.log[m].t = "poll"

C20_Attempts(i) ==
    {m \in i .. C19_Ret(i) : last.log[m].t = "poll"}

\* The reads of the operation when the call of retreive at m returns.
C20_ReadsAfter(i, m) ==
    IF \E q \in C20_Attempts(i) : q > m
    THEN last.log[CHOOSE q \in C20_Attempts(i) :
                     q > m /\ \A o \in C20_Attempts(i) : o > m => q <= o].n
    ELSE last.log[C19_Ret(i)].b[1]

C20_CallTerminates ==
    last.exc = "" =>
        /\ Cardinality({j \in DOMAIN last.log : last.log[j].t = "ret"})
              = Cardinality({j \in DOMAIN last.log : last.log[j].t = "call"})
        /\ last.op = "TxCall" => last.log[Len(last.log)].t = "ret"
        /\ \A i \in C19_Waits :
              /\ Cardinality(C20_Attempts(i)) <= TxAttempts
              /\ last.log[C19_Ret(i)].n = Cardinality(C20_Attempts(i))
              /\ \A m \in C20_Attempts(i) :
                    C20_ReadsAfter(i, m) - last.log[m].n \in 1 .. (1 + Retries)
              /\ (\A k \in C19_Received(i) : ~C19_Matches(k, last.log[i].cmd))
                    => /\ last.log[C19_Ret(i)].p = NoPacket
                       /\ Cardinality(C20_Attempts(i)) = TxAttempts

\* A call nobody answers: eight calls of retreive of seven reads each, and
\* none returned.
C20_Witness ==
    /\ last.op = "TxCall"
    /\ last.exc = ""
    /\ last.reply = NoPacket
    /\ Len(Read(last.log)) = 0
    /\ \E i \in C19_Waits :
          /\ Cardinality(C20_Attempts(i)) = TxAttempts
          /\ last.log[C19_Ret(i)].b[1] - last.log[i].n
                = TxAttempts * (1 + Retries)

(***************************************************************************)
(* C21 as stated: Init is written in a packet whose header credit field is *)
(* 0, and every other packet the Link writes has a credit field that is    *)
(* not 0.  The preamble is not a packet of the Link's.                     *)
(***************************************************************************)
\* The packets the Link has written in the last operation.
C21_Packets ==
    {k \in DOMAIN last.log :
        last.log[k].t = "w" /\ last.log[k].b # ENTER_D4}

\* The credit field of the header of packet b.
C21_Credit(b) == b[5]

C21_InitAloneWithoutCredit ==
    \A k \in C21_Packets :
        C21_Credit(last.log[k].b) = 0 <=> WrittenCmd(last.log[k].b) = "Init"

(***************************************************************************)
(* C22: the Link neither reorders nor duplicates packets.  Over the calls  *)
(* of retreive an operation makes, the packets dispatched, in the order of *)
(* their dispatch, followed by the buffer left, are the bytes of the       *)
(* buffer the operation started with followed by the bytes read, in the    *)
(* order they were read.                                                   *)
(***************************************************************************)
\* The packets dispatched in a log, header and payload, in order.
C22_Packet(e) ==
    <<e.cid[1], e.cid[2]>> \o PackBE(hLen + Len(e.b), 2) \o <<e.n, 0>> \o e.b

C22_Packets(log) ==
    [i \in 1 .. Len(EntriesOf(log, "d")) |->
        C22_Packet(EntriesOf(log, "d")[i])]

C22_InOrderOnce ==
    last.op \in {"TxCall", "LinkRetreive"} /\ last.exc = "" =>
        Joined(C22_Packets(last.log)) \o received
            = last.pre.received \o Joined(Read(last.log))

\* A transaction call that started with a packet in the buffer, read two
\* more, dispatched two of the three and left the third.
C22_Witness ==
    /\ last.op = "TxCall"
    /\ last.exc = ""
    /\ last.pre.received # <<>>
    /\ Len(C22_Packets(last.log)) = 2
    /\ Len(Read(last.log)) >= 1
    /\ C22_Packets(last.log)[1] # C22_Packets(last.log)[2]
    /\ received # <<>>

(***************************************************************************)
(* C23: the credit in the header of a dispatched packet of a known channel *)
(* is added to that channel's credit once, before the payload is handed to *)
(* the channel's on_received, for an empty payload as for any other and    *)
(* for a packet a waiting transaction call drops as for one it returns.    *)
(***************************************************************************)
\* The packets of known channels dispatched in the last operation.
C23_Dispatches ==
    {k \in DOMAIN last.log :
        last.log[k].t = "d" /\ last.log[k].cid \in Channels}

\* The credit the headers of the packets dispatched on channel c carry.
RECURSIVE C23_HeaderCredit(_, _)
C23_HeaderCredit(log, c) ==
    IF log = <<>> THEN 0
    ELSE (IF Head(log).t = "d" /\ Head(log).cid = c THEN Head(log).n ELSE 0)
            + C23_HeaderCredit(Tail(log), c)

\* The credit the transaction commands handed to TXChannel.on_received
\* grant to channel c in their addCredit field.
RECURSIVE C23_Granted(_, _)
C23_Granted(log, c) ==
    IF log = <<>> THEN 0
    ELSE (IF /\ Head(log).t = "d"
             /\ Head(log).cid = TXCid
             /\ Head(log).b # <<>>
             /\ TxDecode(protocol, Head(log).b) # Invalid
             /\ HasField(protocol, TxDecode(protocol, Head(log).b),
                         "addCredit")
             /\ <<Field(protocol, TxDecode(protocol, Head(log).b), "sidP"),
                  Field(protocol, TxDecode(protocol, Head(log).b), "sidS")>>
                   = c
          THEN Field(protocol, TxDecode(protocol, Head(log).b), "addCredit")
          ELSE 0)
            + C23_Granted(Tail(log), c)

\* The packets written on channel c, each sent at the cost of one credit.
C23_Spent(c) ==
    Cardinality({k \in DOMAIN last.log :
                    /\ last.log[k].t = "w"
                    /\ SubSeq(last.log[k].b, 1, 2) = c})

C23_CreditOncePerPacket ==
    /\ \A k \in C23_Dispatches :
          last.log[k].b # <<>> =>
              /\ k < Len(last.log)
              /\ last.log[k + 1].t = "hook"
              /\ last.log[k + 1].cid = last.log[k].cid
              /\ last.log[k + 1].n = last.log[k + 1].b[1] + last.log[k].n
    /\ last.exc = "" /\ last.op \in {"TxCall", "LinkRetreive"} =>
          \A c \in Channels :
              credit[c] = last.pre.credit[c]
                             + C23_HeaderCredit(EntriesOf(last.log, "d"), c)
                             + C23_Granted(EntriesOf(last.log, "d"), c)
                             - C23_Spent(c)

\* A transaction call that got a packet without payload carrying credit
\* and then its reply, carrying credit too.
C23_Witness ==
    /\ last.op = "TxCall"
    /\ last.exc = ""
    /\ last.reply # NoPacket
    /\ \E k \in C23_Dispatches :
          /\ last.log[k].b = <<>>
          /\ last.log[k].n > 0
          /\ credit[last.log[k].cid] = last.pre.credit[last.log[k].cid] + last.log[k].n
    /\ \E k \in C23_Dispatches :
          /\ last.log[k].b # <<>>
          /\ last.log[k].n > 0
          /\ last.log[k + 1].t = "hook"

(***************************************************************************)
(* C24: an InitReply whose result is 0x01 or 0x0B, or 0x02 with a revision *)
(* other than 0x10 and 0x20, makes entering the Link fail: an error is     *)
(* raised, nothing more is written (no further Init, no retry) and the     *)
(* Link's scope counter stays at 0.                                        *)
(***************************************************************************)
\* The InitReply p refuses the Link.
C24_Refuses(p) ==
    /\ p # NoPacket
    /\ p.name = "InitReply"
    /\ \/ p.vals[1] \in {1, 11}
       \/ p.vals[1] = 2 /\ p.vals[2] \notin {16, 32}

\* The entries where an Init call returns a reply that refuses the Link.
C24_Refusals ==
    {j \in DOMAIN last.log :
        /\ last.log[j].t = "ret"
        /\ last.log[j].cmd = "Init"
        /\ C24_Refuses(last.log[j].p)}

C24_RefusedInitFails ==
    \A j \in C24_Refusals :
        /\ last.exc \in {"TypeError", "Init failed"}
        /\ last.pre.nctx = 0
        /\ nctx = 0
        /\ \A k \in (j + 1) .. Len(last.log) :
              last.log[k].t \notin {"w", "call", "send"}

\* An entry answered with "retry later": one Init written, an error raised.
C24_Witness ==
    /\ last.op = "LinkEnter"
    /\ C24_Refusals # {}
    /\ last.reply.vals[1] = 11
    /\ TimesWritten(last.log, "Init") = 1
    /\ last.exc # ""
    /\ nctx = 0

(***************************************************************************)
(* C25 as stated: for every reply of both tables, decoding a payload       *)
(* shorter than the fixed layout of the reply succeeds, and the leading    *)
(* fields of the record are those of the longest prefix of the layout      *)
(* that fits the bytes there are.                                          *)
(***************************************************************************)
\* The number of leading fields of layout fmt that fit n bytes.
RECURSIVE C25_Fit(_, _)
C25_Fit(fmt, n) ==
    IF fmt = <<>> \/ Head(fmt) > n THEN 0
    ELSE 1 + C25_Fit(Tail(fmt), n - Head(fmt))

C25_ShortReplyDecodes ==
    last.op = "short" =>
        /\ last.out # Invalid
        /\ last.out.name = last.arg.cmd
        /\ \A i \in 1 .. C25_Fit(Table(last.arg.rev)[last.arg.cmd].fmt,
                                 last.arg.keep) :
              last.out.vals[i] = last.arg.a[i]

(***************************************************************************)
(* C26 as stated: once the outermost scope of the Link has exited, the     *)
(* credit of the transaction channel is 0, whether the peer has answered   *)
(* Exit or not.                                                            *)
(***************************************************************************)
C26_Outermost ==
    /\ last.op = "LinkExit"
    /\ last.pre.nctx = 1
    /\ last.exc = ""

C26_NoCreditAfterExit == C26_Outermost => credit[TXCid] = 0

(***************************************************************************)
(* C27 as stated: over nested enter and exit of one Channel, OpenChannel   *)
(* for its id is written exactly once, by the enter that takes its scope   *)
(* counter off zero, and CloseChannel exactly once, by the exit that       *)
(* brings the counter back to zero; these two operations take and give     *)
(* back one scope of the Link, and the nested ones none.                   *)
(***************************************************************************)
\* How many times command cmd naming channel cid is written in a log.
C27_Written(log, cmd, cid) ==
    Len(SelectSeq(log, LAMBDA e :
        /\ e.t = "w"
        /\ WrittenTx(e.b) = protocol_0x20[cmd].code
        /\ WrittenSid(e.b) = cid))

\* 1 for the outermost scope of the channel, 0 for a nested one.
C27_Outer(n) == IF n = 0 THEN 1 ELSE 0

C27_Entered ==
    /\ last.op = "ChannelEnter"
    /\ last.exc = ""

C27_Exited ==
    /\ last.op = "ChannelExit"
    /\ last.exc = ""

C27_OpenedAndClosedOnce ==
    /\ C27_Entered =>
          /\ C27_Written(last.log, "OpenChannel", last.cid)
                = C27_Outer(last.pre.ch_nctx[last.cid])
          /\ C27_Written(last.log, "CloseChannel", last.cid) = 0
          /\ nctx = last.pre.nctx + C27_Outer(last.pre.ch_nctx[last.cid])
    /\ C27_Exited =>
          /\ C27_Written(last.log, "CloseChannel", last.cid)
                = C27_Outer(ch_nctx[last.cid])
          /\ C27_Written(last.log, "OpenChannel", last.cid) = 0
          /\ nctx = last.pre.nctx - C27_Outer(ch_nctx[last.cid])

(***************************************************************************)
(* C28 as stated: when the Link has an enter preamble, its outermost       *)
(* entry writes the preamble once, first of all, then reads the pipe at    *)
(* most 5 times, and then writes Init, whether the marker was among what   *)
(* it read or not.                                                         *)
(***************************************************************************)
C28_Entry ==
    /\ last.op = "LinkEnter"
    /\ last.pre.nctx = 0
    /\ CMD_ENTER_D4

\* Where the log has the preamble written, Init written, a call started.
C28_Preambles ==
    {i \in DOMAIN last.log :
        last.log[i].t = "w" /\ last.log[i].b = ENTER_D4}

C28_Inits ==
    {i \in DOMAIN last.log :
        /\ last.log[i].t = "w"
        /\ WrittenTx(last.log[i].b) = protocol_0x20["Init"].code}

C28_Calls == {i \in DOMAIN last.log : last.log[i].t = "call"}

\* The first position of a non-empty set of them.
C28_First(S) == CHOOSE i \in S : \A j \in S : i <= j

\* The reads of the polling loop: those made before the first call.
C28_Polled == last.log[C28_First(C28_Calls)].n

C28_PreambleThenInit ==
    C28_Entry =>
        /\ C28_Preambles = {1}
        /\ C28_Calls # {}
        /\ C28_Polled <= 5
        /\ \A i \in 2 .. (C28_First(C28_Calls) - 1) : last.log[i].t = "r"
        /\ C28_Inits # {}
        /\ C28_First(C28_Inits) > C28_First(C28_Calls)

(***************************************************************************)
(* C29 as stated: with rlen=1, read_eeprom(a, ...) sends each address as   *)
(* one byte, and yields (a, v) when the reply is '@BDC PS EE:' with the    *)
(* hex characters of a (1 byte) and of v, and then ';'.                    *)
(***************************************************************************)
\* read_eeprom called with addresses on a printer with 1-byte addresses.
C29_Case ==
    /\ last.op = "read_eeprom"
    /\ last.arg.addr # <<>>
    /\ spec.rlen = 1

\* '@BDC PS EE:aavv;'
C29_Form(a, v) == EEReply(Hex2(a) \o Hex2(v))

C29_ValueOfOneByteAddress ==
    C29_Case =>
        /\ last.exc = ""
        /\ Len(Sent) = Len(last.arg.addr)
        /\ Len(last.ret) = Len(last.arg.addr)
        /\ \A i \in DOMAIN last.arg.addr :
              LET a == last.arg.addr[i]
              IN  /\ Sent[i].m = encode(spec, CMD_READ, <<a>>)
                  /\ \A v \in 0 .. 255 :
                        Sent[i].r = C29_Form(a, v) => last.ret[i] = <<a, v>>

(***************************************************************************)
(* C30 as stated: find_wkey reads the value v of addr, then writes v+1 to  *)
(* addr with one candidate after the other, in order.  At the first        *)
(* candidate whose write is acknowledged and read back it writes v to addr *)
(* with that candidate as key, makes it the write key of the model spec    *)
(* and returns it, and addr holds v again.  When no candidate does, it     *)
(* returns nothing and the model spec keeps its write key.                 *)
(***************************************************************************)
\* find_wkey has returned.
C30_Case ==
    /\ last.op = "find_wkey"
    /\ last.exc = ""

\* The address it works on and the value it has read there.
C30_Addr ==
    IF last.arg.addr = NoneVal THEN last.pre.spec.mem_low ELSE last.arg.addr

C30_Val == ValueAt(1, C30_Addr)

\* The write command for the address carrying val under key k.
C30_Command(val, k) ==
    encode(spec, CMD_WRITE,
           PackLE(C30_Addr, Width(spec.wlen)) \o <<val>> \o k)

\* Where the write commands are among the commands sent.
C30_Writes ==
    SelectSeq([j \in 1 .. Len(Sent) |-> j],
              LAMBDA j : Sent[j].m[7] = CMD_WRITE[2])

\* The write of candidate i was acknowledged and the value read back.
C30_Succeeded(i) ==
    /\ Acked(C30_Writes[i])
    /\ IsRead(C30_Writes[i] + 1, C30_Addr)
    /\ ValueAt(C30_Writes[i] + 1, C30_Addr) = C30_Val + 1

\* Candidates 1 to n were tried in order and none before the n-th
\* succeeded.
C30_TriedInOrder(n) ==
    /\ n <= Len(C30_Writes)
    /\ \A i \in 1 .. n :
          Sent[C30_Writes[i]].m = C30_Command(C30_Val + 1, last.arg.ikeys[i])
    /\ \A i \in 1 .. (n - 1) : ~C30_Succeeded(i)

\* Candidate s is the one found.
C30_Found(s) ==
    /\ C30_TriedInOrder(s)
    /\ C30_Succeeded(s)
    /\ Len(C30_Writes) = s + 1
    /\ Sent[C30_Writes[s + 1]].m = C30_Command(C30_Val, last.arg.ikeys[s])
    /\ spec.wkey = last.arg.ikeys[s]
    /\ last.ret = <<last.arg.ikeys[s]>>
    /\ eeprom[C30_Addr] = C30_Val

\* No candidate is.
C30_NoneFound ==
    /\ C30_TriedInOrder(Len(last.arg.ikeys))
    /\ Len(C30_Writes) = Len(last.arg.ikeys)
    /\ \A i \in DOMAIN last.arg.ikeys : ~C30_Succeeded(i)
    /\ spec.wkey = last.pre.spec.wkey
    /\ last.ret = <<>>

C30_FirstKeyAdopted ==
    /\ C30_Case =>
          /\ IsRead(1, C30_Addr)
          /\ C30_Val = last.pre.eeprom[C30_Addr]
          /\ IF last.ret # <<>>
             THEN \E s \in DOMAIN last.arg.ikeys : C30_Found(s)
             ELSE C30_NoneFound
    /\ last.op = "find_wkey" /\ last.exc # "" =>
          spec.wkey = last.pre.spec.wkey

\* The second of two candidates is the printer's key and the model spec had
\* another one.
C30_Witness ==
    /\ C30_Case
    /\ last.arg.ikeys = <<WrongKey, PrinterKey>>
    /\ last.pre.spec.wkey = WrongKey
    /\ last.ret = <<PrinterKey>>
    /\ spec.wkey = PrinterKey
    /\ Len(C30_Writes) = 3
    /\ eeprom[C30_Addr] = 66

\* No candidate is the printer's key.
C30_WitnessNone ==
    /\ C30_Case
    /\ last.arg.ikeys = <<<<>>, WrongKey>>
    /\ last.ret = <<>>
    /\ Len(C30_Writes) = 2
    /\ spec.wkey = last.pre.spec.wkey

(***************************************************************************)
(* C31: when write_eeprom is given no key and the model spec has none, no  *)
(* write command ('B') is sent to the printer and the EEPROM keeps every   *)
(* value: the call ends in the TypeError of adding None to the packed      *)
(* address and value, after the reads of an atomic call.                   *)
(***************************************************************************)
\* write_eeprom called without a key on a model spec without one.
C31_Case ==
    /\ last.op = "write_eeprom"
    /\ spec.wkey = NoKey

C31_NothingWrittenWithoutKey ==
    C31_Case =>
        /\ WriteCommands = {}
        /\ eeprom = last.pre.eeprom
        /\ last.exc = "TypeError"

\* An atomic call that has read the two addresses before it ends.
C31_Witness ==
    /\ C31_Case
    /\ last.arg.atomic
    /\ Len(last.arg.addrval) = 2
    /\ last.pre.printer = [reads |-> "ok", acks |-> TRUE, stores |-> "yes"]
    /\ Cardinality(ReadCommands) = 2
    /\ last.exc = "TypeError"

(***************************************************************************)
(* C32: entering the Link writes at most two Init commands, whatever the   *)
(* peer replies.  _send_init calls itself whenever the InitReply has       *)
(* result 0x02 and names the other of the revisions 0x10 and 0x20, and     *)
(* keeps no count: against a peer that names them alternately it sends     *)
(* Init until the interpreter ends the recursion.                          *)
(***************************************************************************)
C32_AtMostTwoInits ==
    last.op = "LinkEnter" => TimesWritten(last.log, "Init") <= 2

(***************************************************************************)
(* C33 as stated: when the Link, fully exited, is entered again, the       *)
(* credit of every data channel is 0: no credit the peer granted in an     *)
(* earlier session is left for the new one.  Channel.credit is set to 0 by *)
(* Channel.__init__ only; __exit__ resets the credit of the transaction    *)
(* channel alone.                                                          *)
(***************************************************************************)
\* The entry of a channel that takes the Link's scope counter off zero.
C33_NewSession ==
    /\ last.op = "ChannelEnter"
    /\ last.pre.nctx = 0
    /\ nctx = 1

C33_NoCreditCarriedOver ==
    C33_NewSession => \A c \in DataCids : last.pre.credit[c] = 0

(***************************************************************************)
(* C34 as stated: the bytes a retreive call has read when its reads run    *)
(* out without a complete packet stay in the reassembly buffer: the buffer *)
(* after the call is the buffer before it followed by what it read.        *)
(* retreive stores its local buffer only when it dispatches a packet.      *)
(***************************************************************************)
\* A link.retreive() that returned without dispatching a packet.
C34_RanOut ==
    /\ last.op = "LinkRetreive"
    /\ last.exc = ""
    /\ EntriesOf(last.log, "d") = <<>>

C34_PartialKept ==
    C34_RanOut => received = last.pre.received \o Joined(Read(last.log))

(***************************************************************************)
(* C35 as stated: a complete packet at the front of the reassembly buffer, *)
(* left there by a retreive call that dispatched the packet before it, is  *)
(* dispatched by a later call of retreive, whether the peer sends anything *)
(* more or not.  retreive decodes its buffer only after a read that        *)
(* returned bytes.                                                         *)
(***************************************************************************)
\* The buffer starts with a complete packet.
C35_Complete(buf) ==
    /\ Len(buf) >= hLen
    /\ UnpackBE(SubSeq(buf, 3, 4)) <= Len(buf)

\* The last operation dispatched a packet.
C35_Dispatched ==
    /\ last.op \in {"LinkRetreive", "ChannelRetreive"}
    /\ EntriesOf(last.log, "d") # <<>>

\* A complete packet is left and the last operation has not dispatched one.
C35_Waiting ==
    /\ C35_Complete(received)
    /\ ~C35_Dispatched

C35_LeftoverDispatched == C35_Waiting ~> C35_Dispatched

(***************************************************************************)
(* C36 as stated: when the printer sends no reply to a write command, so   *)
(* that the control channel's call returns None, write_eeprom counts the   *)
(* pair as failed and returns false without raising.  The reply is tested  *)
(* with b':OK;' in r, which raises TypeError for None.                     *)
(***************************************************************************)
\* A write command of the call was left without a reply.
C36_NoReply ==
    /\ last.op = "write_eeprom"
    /\ \E j \in WriteCommands : Sent[j].r = NoData

C36_NoReplyReturnsFalse ==
    C36_NoReply => last.exc = "" /\ last.ret = FALSE

(***************************************************************************)
(* C37 as stated: when an atomic write_eeprom fails and goes on to restore *)
(* the previous values, every target address whose read before the write   *)
(* gave a value is written again with that value, also when the read of    *)
(* another target address gave None.  The restoring call is given every    *)
(* pair that was read, (addr, None) included, and packs them all before it *)
(* sends the first command.                                                *)
(***************************************************************************)
\* The value the read before the write gave for pair i, NoneVal for None.
C37_Previous(i) == ValueAt(i, last.arg.addrval[i][1])

\* An atomic call that went on to restore after a read that gave None.
C37_Case ==
    /\ last.op = "write_eeprom"
    /\ last.arg.atomic
    /\ Restored
    /\ \A i \in DOMAIN last.arg.addrval : IsRead(i, last.arg.addrval[i][1])
    /\ \E i \in DOMAIN last.arg.addrval : C37_Previous(i) = NoneVal

C37_ReadValuesRestored ==
    C37_Case =>
        \A i \in DOMAIN last.arg.addrval :
            C37_Previous(i) # NoneVal =>
                \E j \in WriteCommands \ BeforeRestore :
                    IsWrite(j, last.arg.addrval[i][1], C37_Previous(i))

(***************************************************************************)
(* C38: channel isolation.  A call of Channel.retreive returns the first   *)
(* payload dispatched for the channel's own id during the call, or None,   *)
(* and never one dispatched for another id; a poll stores a payload in a   *)
(* channel only when it dispatched a packet for that channel's id; and a   *)
(* poll that dispatched only packets of ids that are not in the channel    *)
(* table leaves every channel's credit and stored payload as they were.    *)
(***************************************************************************)
\* The packets with a payload dispatched for id c in a log.
C38_Dispatched(log, c) ==
    SelectSeq(log, LAMBDA e : e.t = "d" /\ e.cid = c /\ e.b # <<>>)

\* What Channel.retreive of channel c returns after that log.
C38_Returned(log, c) ==
    IF C38_Dispatched(log, c) = <<>> THEN NoData
    ELSE C38_Dispatched(log, c)[1].b

\* Every packet dispatched in a log has an id that is not in the table.
C38_OnlyUnknown(log) ==
    \A k \in DOMAIN log : log[k].t = "d" => log[k].cid \notin Channels

\* One step whose last operation is a poll that did not raise.
C38_Step ==
    (last'.op \in {"LinkRetreive", "ChannelRetreive"} /\ last'.exc = "") =>
        /\ last'.op = "ChannelRetreive" =>
              /\ last'.data = C38_Returned(last'.log, last'.cid)
              /\ ch_received'[last'.cid] = last'.data
        /\ last'.op = "LinkRetreive" =>
              \A c \in DataCids :
                  C38_Dispatched(last'.log, c) = <<>> =>
                      ch_received'[c] = ch_received[c]
        /\ C38_Dispatched(last'.log, TXCid) = <<>> =>
              txn_received' = txn_received
        /\ C38_OnlyUnknown(last'.log) => credit' = credit

C38_ChannelIsolation == [][C38_Step]_vars

\* A channel.retreive() that dispatched a packet of an id that is not in
\* the table, then the channel's own, and returned the latter's payload,
\* with the credit of that packet alone added.
C38_Witness ==
    /\ last.op = "ChannelRetreive"
    /\ last.exc = ""
    /\ \E k \in DOMAIN last.log :
          last.log[k].t = "d" /\ last.log[k].cid = <<64, 64>>
    /\ last.data = PeerData
    /\ credit[last.cid] = last.pre.credit[last.cid] + 1
    /\ credit[TXCid] = last.pre.credit[TXCid]
    /\ txn_received # NoPacket

====
